---- MODULE Spec2Model ----
(***************************************************************************)
(* Vehicle valuation engine of automotive_lib (price_calculator.py):       *)
(* DepreciationModel and PriceCalculator.                                  *)
(*                                                                         *)
(* Numbers.  The program computes with Python floats, which are IEEE-754   *)
(* binary64 numbers, and so does this model: a float is a sign, a 53-bit   *)
(* mantissa and a binary exponent, every arithmetic operation rounds its   *)
(* exact result to the nearest float, ties to even, and round(x, n) and    *)
(* the format '+.1f' round the float's exact value to n decimals, ties to  *)
(* even, as CPython does.  Mantissas and intermediate products exceed a    *)
(* machine integer, so they are sequences of 15-bit limbs.                 *)
(*                                                                         *)
(* A float that enters or leaves an operation is written as the short      *)
(* decimal it is the nearest float to: money as an integer number of MILLS *)
(* (1/1000 of the currency unit; a result of round(x, 2) is a multiple of  *)
(* 10), percentages of round(x, 1) in tenths, and the rates and factors of *)
(* the lookup tables as integer percents (0.20 is 20).                     *)
(*                                                                         *)
(* Strings are sequences of one-character strings, so that str.lower()     *)
(* and the f-string formats are computed rather than assumed.              *)
(***************************************************************************)
EXTENDS Integers, Sequences, FiniteSets, TLC

VARIABLES
    DEPRECIATION_RATES,   \* class attribute DepreciationModel.DEPRECIATION_RATES
    MAKE_FACTORS,         \* class attribute PriceCalculator.MAKE_FACTORS
    adjustments,          \* PriceCalculator.adjustments of the shared instance
    vehicles,             \* the caller's list handed to compare_vehicles
    call,                 \* the last operation called, with its arguments
    result,               \* what that call returned or raised
    threads,              \* concurrent callers of the shared instance: where each is
    frames,               \* the local variables of the invocations in progress
    table,                \* the rows of the web application's vehicles table
    analytics,            \* VehicleAnalytics.vehicles of the module-level instance
    requests,             \* the requests being served: where each is, its locals
    activity,             \* the activity log (ActivityLogger's table)
    request,              \* the last request served whole, with its outcome
    manager,              \* VehicleManager._vehicles of a manager
    caller                \* the manager's caller: its calls and what it was handed

vars == <<DEPRECIATION_RATES, MAKE_FACTORS, adjustments, vehicles, call, result,
          threads, frames, table, analytics, requests, activity, request,
          manager, caller>>

\* ------------------------------------------------------------------ bounds

\* ages run over -MaxFuture .. MaxAge
MaxAge == 30

MaxFuture == 6

\* longest list handed to compare_vehicles
MaxVehicles == 3

\* callers that use the shared instance at the same time
NumThreads == 2

\* the requests served at the same time
NumRequests == 2

\* the registered users
NumUsers == 2

\* the requests to add, edit or delete a vehicle that are followed
MaxServed == 2

\* the successful add_vehicle calls of a manager that are followed
MaxAdded == 3

\* largest percent a float constant is made of
MaxPct == 130

\* ------------------------------------------------- naturals of any size

Abs(x) == IF x < 0 THEN -x ELSE x

Sign(x) == IF x < 0 THEN -1 ELSE 1

Min(a, b) == IF a <= b THEN a ELSE b

Max(a, b) == IF a >= b THEN a ELSE b

\* 2^k for k in 1 .. 15
PowersOfTwo ==
    <<2, 4, 8, 16, 32, 64, 128, 256, 512, 1024, 2048, 4096, 8192, 16384, 32768>>

Pow2(k) == IF k = 0 THEN 1 ELSE PowersOfTwo[k]

Pow10(k) == IF k = 0 THEN 1 ELSE <<10, 100, 1000>>[k]

\* A natural number is the sequence of its limbs of LimbBits bits, least
\* significant first, without leading zero limbs; zero is <<>>.
LimbBits == Len(PowersOfTwo)

Base == Pow2(LimbBits)

RECURSIVE NatBig(_)
NatBig(n) == IF n = 0 THEN <<>> ELSE <<n % Base>> \o NatBig(n \div Base)

RECURSIVE BigNat(_)
BigNat(d) == IF d = <<>> THEN 0 ELSE Head(d) + Base * BigNat(Tail(d))

Limb(a, i) == IF 1 <= i /\ i <= Len(a) THEN a[i] ELSE 0

\* without its leading zero limbs
Strip(d) ==
    LET nz == {i \in 1..Len(d) : d[i] # 0}
    IN  IF nz = {} THEN <<>>
        ELSE SubSeq(d, 1, CHOOSE i \in nz : \A j \in nz : j <= i)

\* a quotient x.q with remainder x.r, and one more limb above the quotient's
WithLimb(x, limb) == [q |-> x.q \o <<limb>>, r |-> x.r]

\* the limbs d[1 .. i] divided by a machine-sized k, with the remainder r of
\* the limbs above them carried in: quotient limbs q and remainder r
RECURSIVE BigDivFrom(_, _, _, _)
BigDivFrom(d, k, i, r) ==
    IF i = 0 THEN [q |-> <<>>, r |-> r]
    ELSE WithLimb(BigDivFrom(d, k, i - 1, (r * Base + d[i]) % k),
                  (r * Base + d[i]) \div k)

Stripped(x) == [q |-> Strip(x.q), r |-> x.r]

BigDiv(d, k) == Stripped(BigDivFrom(d, k, Len(d), 0))

BigLeq(a, b) ==
    LET n == Max(Len(a), Len(b))
    IN  \/ \A i \in 1..n : Limb(a, i) = Limb(b, i)
        \/ \E i \in 1..n :
              /\ Limb(a, i) < Limb(b, i)
              /\ \A j \in (i + 1)..n : Limb(a, j) = Limb(b, j)

BigLess(a, b) == ~BigLeq(b, a)

\* the carry into limb i of limb sums: 1 when a limb below i produces a carry
\* and every limb between passes it on
CarryInto(sum, i) ==
    IF \E j \in 1..(i - 1) :
          sum[j] >= Base /\ \A k \in (j + 1)..(i - 1) : sum[k] = Base - 1
    THEN 1 ELSE 0

\* the number whose limb sums are given, each below 2 * Base - 1
Carried(sum) ==
    [i \in 1..Len(sum) |-> (sum[i] + CarryInto(sum, i)) % Base]
        \o (IF CarryInto(sum, Len(sum) + 1) = 1 THEN <<1>> ELSE <<>>)

\* a + b
BigAdd(a, b) == Carried([i \in 1..Max(Len(a), Len(b)) |-> Limb(a, i) + Limb(b, i)] \o <<>>)

\* a - b for a >= b: the limb differences, less the borrow that a limb below
\* i produces and every limb between passes on
BigSub(a, b) ==
    LET borrow == [i \in 1..Len(a) |->
                     IF \E j \in 1..(i - 1) :
                           a[j] < Limb(b, j) /\ \A k \in (j + 1)..(i - 1) : a[k] = Limb(b, k)
                     THEN 1 ELSE 0]
    IN  Strip([i \in 1..Len(a) |-> (a[i] - Limb(b, i) - borrow[i] + Base) % Base])

\* d * k for 0 <= k <= Base: the low and the high limb of each product,
\* added
BigMul(d, k) ==
    IF d = <<>> THEN <<>>
    ELSE Strip(BigAdd([i \in 1..Len(d) |-> (d[i] * k) % Base],
                      <<0>> \o [i \in 1..Len(d) |-> (d[i] * k) \div Base]))

\* d * Base
ShiftLimb(d) == IF d = <<>> THEN <<>> ELSE <<0>> \o d

\* what the products of the limbs a[1 .. i] with the limbs of b put into limb
\* k of a * b: the low limbs of the products of weight k and the high limbs
\* of those of weight k - 1
RECURSIVE Column(_, _, _, _)
Column(a, b, k, i) ==
    IF i = 0 THEN 0
    ELSE ((a[i] * Limb(b, k - i + 1)) % Base) + ((a[i] * Limb(b, k - i)) \div Base)
            + Column(a, b, k, i - 1)

\* a * b: the columns, then their low and high limbs added
BigMulBig(a, b) ==
    LET n == Len(a) + Len(b)
        column == [k \in 1..n |-> Column(a, b, k, Len(a))]
    IN  IF a = <<>> \/ b = <<>> THEN <<>>
        ELSE Strip(BigAdd([k \in 1..n |-> column[k] % Base],
                          <<0>> \o [k \in 1..n |-> column[k] \div Base]))

\* d * 2^s
ShiftLeft(d, s) ==
    LET t == s % LimbBits
    IN  IF d = <<>> THEN <<>>
        ELSE [i \in 1..(s \div LimbBits) |-> 0]
                \o Strip([i \in 1..(Len(d) + 1) |->
                            ((Limb(d, i) * Pow2(t)) % Base)
                                + (Limb(d, i - 1) \div Pow2(LimbBits - t))])

\* d / 2^s: the quotient q, and whether the division is exact
ShiftRight(d, s) ==
    LET k == Min(s \div LimbBits, Len(d))
        t == s % LimbBits
        w == SubSeq(d, k + 1, Len(d))
    IN  IF w = <<>> THEN [q |-> <<>>, exact |-> \A i \in 1..k : d[i] = 0]
        ELSE [q |-> Strip([i \in 1..Len(w) |->
                             (w[i] \div Pow2(t))
                                 + (Limb(w, i + 1) % Pow2(t)) * Pow2(LimbBits - t)]),
              exact |-> w[1] % Pow2(t) = 0 /\ \A i \in 1..k : d[i] = 0]

\* the n with 2^(n-1) <= d < 2^n, for d > 0
BitLen(d) ==
    LimbBits * (Len(d) - 1)
        + (CHOOSE n \in 1..LimbBits : Pow2(n - 1) <= d[Len(d)] /\ d[Len(d)] < Pow2(n))

\* q, or q + 1 when what was cut off q begins with a set bit (half) and more
\* follows it, or nothing follows and q is odd
RoundedUp(q, half, more) ==
    IF half /\ (more \/ Limb(q, 1) % 2 = 1) THEN BigAdd(q, <<1>>) ELSE q

\* h.q / 2 rounded to an integer, ties to even, where h.q is a quotient that
\* is exact or not
HalfRounded(h, sticky) ==
    RoundedUp(ShiftRight(h.q, 1).q, Limb(h.q, 1) % 2 = 1, ~h.exact \/ sticky)

\* d / 2^s rounded to an integer, ties to even, for s >= 1; sticky says that
\* d stands for a number slightly above d
RoundShift(d, s, sticky) == HalfRounded(ShiftRight(d, s - 1), sticky)

\* --------------------------------------------------------- Python floats

\* bits of the mantissa of a float
Precision == 53

\* A float is s * m * 2^e with s the sign and 2^52 <= m < 2^53, or it is zero.
FZero == [s |-> 1, m |-> <<>>, e |-> 0]

IsZero(x) == x.m = <<>>

\* the float s * m * 2^e of a mantissa that rounding has left at Precision
\* bits or carried to 2^Precision
FOfMantissa(s, m, e) ==
    IF BitLen(m) > Precision THEN [s |-> s, m |-> ShiftRight(m, 1).q, e |-> e + 1]
    ELSE [s |-> s, m |-> m, e |-> e]

\* the float nearest to s * d * 2^e (slightly above d when sticky), ties to even
FNormalize(s, d, e, sticky) ==
    IF d = <<>> THEN FZero
    ELSE LET n == BitLen(d)
         IN  IF n <= Precision
             THEN [s |-> s, m |-> ShiftLeft(d, Precision - n), e |-> e - (Precision - n)]
             ELSE FOfMantissa(s, RoundShift(d, n - Precision, sticky), e + (n - Precision))

\* float(n) of an integer
FOfInt(n) == FNormalize(Sign(n), NatBig(Abs(n)), 0, FALSE)

\* the float nearest to s * 2^e times a quotient dv.q with remainder dv.r
FOfQuotient(s, dv, e) == FNormalize(s, dv.q, e, dv.r # 0)

\* the float of the decimal n / 10^digits
FOfDecimal(n, digits) ==
    IF n = 0 THEN FZero
    ELSE FOfQuotient(Sign(n), BigDiv(ShiftLeft(NatBig(Abs(n)), 64), Pow10(digits)), -64)

FNeg(x) == IF IsZero(x) THEN x ELSE [x EXCEPT !.s = -x.s]

\* x * y
FMul(x, y) ==
    IF IsZero(x) \/ IsZero(y) THEN FZero
    ELSE FNormalize(x.s * y.s, BigMulBig(x.m, y.m), x.e + y.e, FALSE)

\* the float nearest to (sx * a + sy * b) * 2^e for naturals a and b: the sum
\* under the common sign, or the difference under the sign of the greater
FSum(sx, a, sy, b, e) ==
    FNormalize(IF sx = sy \/ BigLeq(b, a) THEN sx ELSE sy,
               IF sx = sy THEN BigAdd(a, b)
               ELSE IF BigLeq(b, a) THEN BigSub(a, b) ELSE BigSub(b, a),
               e, FALSE)

\* x + y: the mantissas brought to the smaller exponent, then added
FAdd(x, y) ==
    IF IsZero(x) THEN y
    ELSE IF IsZero(y) THEN x
    ELSE FSum(x.s, ShiftLeft(x.m, x.e - Min(x.e, y.e)),
              y.s, ShiftLeft(y.m, y.e - Min(x.e, y.e)), Min(x.e, y.e))

\* x - y
FSub(x, y) == FAdd(x, FNeg(y))

IsNegative(x) == ~IsZero(x) /\ x.s = -1

\* x < y
FLess(x, y) == IsNegative(FSub(x, y))

FLeq(x, y) == ~FLess(y, x)

\* The quotient limb of u by d, for u < d * Base and d of four limbs with the
\* top bit of the fourth set: it is at most two below its estimate from the
\* leading limbs.
QuotientLimb(u, d) ==
    LET estimate == Min((Limb(u, 5) * Base + Limb(u, 4)) \div d[4], Base - 1)
    IN  CHOOSE c \in {estimate - 2, estimate - 1, estimate} :
            c >= 0 /\ BigLeq(BigMul(d, c), u) /\ BigLess(u, BigMul(d, c + 1))

\* the quotient limb q of u by d, and the remainder it leaves
DivStep(u, d, q) == [q |-> q, r |-> BigSub(u, BigMul(d, q))]

\* one limb of the long division by d of what the remainder r heads
DivLimb(r, d) == DivStep(ShiftLimb(r), d, QuotientLimb(ShiftLimb(r), d))

\* the quotient limbs st.q and the remainder, after one more step
DivNext(st, step) == [q |-> <<step.q>> \o st.q, r |-> step.r]

\* n more limbs of the long division by d
RECURSIVE DivLimbs(_, _, _)
DivLimbs(st, d, n) ==
    IF n = 0 THEN st ELSE DivLimbs(DivNext(st, DivLimb(st.r, d)), d, n - 1)

\* the integer part, 0 or 1, of u / d for u < 2 * d, and the remainder
DivStart(u, d) ==
    IF BigLeq(d, u) THEN [q |-> <<1>>, r |-> BigSub(u, d)] ELSE [q |-> <<0>>, r |-> u]

\* a mantissa shifted so that its top bit is the top bit of four limbs
Aligned(m) == ShiftLeft(m, 4 * LimbBits - Precision)

\* the float nearest to s * 2^e times the quotient of a long division
FOfDivision(s, st, e) == FNormalize(s, Strip(st.q), e, st.r # <<>>)

\* x / y for y # 0 (the callers raise ZeroDivisionError before they divide):
\* the integer part of the quotient of the mantissas, then four more limbs
FDiv(x, y) ==
    IF IsZero(x) \/ IsZero(y) THEN FZero
    ELSE FOfDivision(x.s * y.s,
                     DivLimbs(DivStart(Aligned(x.m), Aligned(y.m)), Aligned(y.m), 4),
                     x.e - y.e - 4 * LimbBits)

\* round(x, digits) as the integer x * 10^digits rounded, ties to even; the
\* float round() returns is FOfDecimal of it
PyRound(x, digits) ==
    IF IsZero(x) THEN 0
    ELSE LET d == BigMul(x.m, Pow10(digits))
         IN  x.s * BigNat(IF x.e >= 0 THEN ShiftLeft(d, x.e)
                          ELSE RoundShift(d, -x.e, FALSE))

\* the float constants 0.00, 0.01, ..., written as percents
FloatPct == [p \in 0..MaxPct |-> FOfDecimal(p, 2)] @@ <<>>

\* (1 + rate): what the loops would multiply by had the rate been added
OnePlus == [p \in 0..MaxPct |-> FAdd(FOfInt(1), FloatPct[p])] @@ <<>>

\* (1 - rate) of a rate written as a percent
OneMinus == [p \in 0..MaxPct |-> FSub(FOfInt(1), FloatPct[p])] @@ <<>>

\* a float argument or result, written in mills
FOfMills(n) == FOfDecimal(n, 3)

\* round(x, 2) in mills
Round2(x) == 10 * PyRound(x, 2)

\* ------------------------------------------------------------------ strings

UpperCase ==
    <<"A", "B", "C", "D", "E", "F", "G", "H", "I", "J", "K", "L", "M",
      "N", "O", "P", "Q", "R", "S", "T", "U", "V", "W", "X", "Y", "Z">>

LowerCase ==
    <<"a", "b", "c", "d", "e", "f", "g", "h", "i", "j", "k", "l", "m",
      "n", "o", "p", "q", "r", "s", "t", "u", "v", "w", "x", "y", "z">>

LowerChar(c) ==
    IF \E i \in 1..Len(UpperCase) : UpperCase[i] = c
    THEN LowerCase[CHOOSE i \in 1..Len(UpperCase) : UpperCase[i] = c]
    ELSE c

\* str.lower()
RECURSIVE Lower(_)
Lower(s) == IF s = <<>> THEN <<>> ELSE <<LowerChar(Head(s))>> \o Lower(Tail(s))

DigitChar == <<"0", "1", "2", "3", "4", "5", "6", "7", "8", "9">>

RECURSIVE NatStr(_)
NatStr(n) ==
    IF n < 10 THEN <<DigitChar[n + 1]>>
    ELSE NatStr(n \div 10) \o <<DigitChar[(n % 10) + 1]>>

\* str(n) of an integer
IntStr(n) == IF n < 0 THEN <<"-">> \o NatStr(-n) ELSE NatStr(n)

\* a sign, then a number of tenths with one decimal, then "%"
PctString(sign, tenths) ==
    <<sign>> \o NatStr(tenths \div 10) \o <<".">> \o NatStr(tenths % 10) \o <<"%">>

\* f"{x:+.1f}%" of a float: its sign, then its magnitude rounded to one
\* decimal
FormatPct(x) == PctString(IF x.s < 0 THEN "-" ELSE "+", Abs(PyRound(x, 1)))

\* ------------------------------------------------------- VehicleCondition

EXCELLENT == 100
GOOD == 85
FAIR == 70
POOR == 50

VehicleCondition == {EXCELLENT, GOOD, FAIR, POOR}

\* -------------------------------------------------------- DepreciationModel

\* datetime.now().year
CurrentYear == 2026

\* the class attribute as first assigned
InitialDepreciationRates == <<20, 15, 12, 10, 8>>

\* the default of DEPRECIATION_RATES.get(year, 0.08)
DefaultRate == 8

\* the floor of max(value, original_price * 0.10), in percent
FloorPct == 10

\* DepreciationModel.__init__
DepreciationModel(original_price, year) ==
    [original_price |-> original_price, year |-> year, age |-> CurrentYear - year]

\* DEPRECIATION_RATES.get(year, 0): the lookup had its default been no rate
RateOfNoDefault(year) ==
    IF year \in DOMAIN DEPRECIATION_RATES THEN DEPRECIATION_RATES[year] ELSE 0

\* DEPRECIATION_RATES.get(year, 0.08)
RateOf(year) ==
    IF year \in DOMAIN DEPRECIATION_RATES THEN DEPRECIATION_RATES[year]
    ELSE DefaultRate

\* the loop had it stopped after the years DEPRECIATION_RATES lists
RECURSIVE DepreciateListedYears(_, _, _)
DepreciateListedYears(value, first, last) ==
    IF first > last \/ first \notin DOMAIN DEPRECIATION_RATES THEN value
    ELSE DepreciateListedYears(FMul(value, OneMinus[DEPRECIATION_RATES[first]]),
                               first + 1, last)

\* the iterations year = first .. last, in that order, of the loop
\* "for year in range(1, self.age + 1): rate = ...; value *= (1 - rate)";
\* a value of zero stays zero
RECURSIVE Depreciate(_, _, _)
Depreciate(value, first, last) ==
    IF first > last \/ IsZero(value) THEN value
    ELSE Depreciate(FMul(value, OneMinus[RateOf(first)]), first + 1, last)

\* max(a, b) and min(a, b) of two floats: the first argument unless the
\* second is strictly beyond it
FMax(a, b) == IF FLess(a, b) THEN b ELSE a

FMin(a, b) == IF FLess(b, a) THEN b ELSE a

\* round(value, 2): the return value had the floor been left out
RoundedUnfloored(self, value) == Round2(value)

\* round(max(value, self.original_price * 0.10), 2)
FlooredRounded(self, value) ==
    Round2(FMax(value, FMul(FOfMills(self.original_price), FloatPct[FloorPct])))

\* the same with the loop over range(0, self.age + 1), one year too many
CurrentValueFromYearZero(self) ==
    FlooredRounded(self, Depreciate(FOfMills(self.original_price), 0, self.age))

calculate_current_value(self) ==
    FlooredRounded(self, Depreciate(FOfMills(self.original_price), 1, self.age))

\* the keys of the schedule: 0 and range(1, min(self.age + 6, 16))
ScheduleLimit == 16

ScheduleAhead == 6

\* the keys had the schedule not been started with {0: self.original_price}
ScheduleYearsOfLoop(self) == 1..(Min(self.age + ScheduleAhead, ScheduleLimit) - 1)

ScheduleYears(self) == {0} \cup (1..(Min(self.age + ScheduleAhead, ScheduleLimit) - 1))

\* the loop had it looked up the rate of the year after: values[y + 1] after
\* the rates of the years 2 .. y + 1
RECURSIVE LoopValuesRateAhead(_, _)
LoopValuesRateAhead(values, last) ==
    IF Len(values) > last THEN values
    ELSE LoopValuesRateAhead(Append(values, FMul(values[Len(values)],
                                                 OneMinus[RateOf(Len(values) + 1)])),
                             last)

\* the values the variable of the loop of get_depreciation_schedule takes:
\* values[y + 1] is its value after the iterations year = 1 .. y, and the
\* loop goes on from year = Len(values) up to year = last
RECURSIVE LoopValues(_, _)
LoopValues(values, last) ==
    IF Len(values) > last THEN values
    ELSE LoopValues(Append(values, FMul(values[Len(values)],
                                        OneMinus[RateOf(Len(values))])),
                    last)

\* schedule = {0: self.original_price} and schedule[year] of each iteration
ScheduleOf(self, values) ==
    [y \in ScheduleYears(self) |->
        IF y = 0 THEN self.original_price ELSE FlooredRounded(self, values[y + 1])]

get_depreciation_schedule(self) ==
    ScheduleOf(self, LoopValues(<<FOfMills(self.original_price)>>,
                                Min(self.age + ScheduleAhead, ScheduleLimit) - 1))

\* round(current_value - original_price, 2): the difference the wrong way
\* round
ValueLessPrice(self) ==
    Round2(FSub(FOfMills(calculate_current_value(self)), FOfMills(self.original_price)))

get_total_depreciation(self) ==
    Round2(FSub(FOfMills(self.original_price), FOfMills(calculate_current_value(self))))

\* the division had its operands been swapped, original_price divided by the
\* total depreciation: it raises for a vehicle that has lost nothing
RaisesWhenUndepreciated(self) == get_total_depreciation(self) = 0

\* the division in get_depreciation_percentage raises ZeroDivisionError
PercentageRaises(self) == self.original_price = 0

\* round((x / y) * 100, 1) of two amounts in mills, in tenths
PercentOf(x, y) == PyRound(FMul(FDiv(FOfMills(x), FOfMills(y)), FOfInt(100)), 1)

get_depreciation_percentage(self) ==
    PercentOf(get_total_depreciation(self), self.original_price)

\* ---------------------------------------------------------- PriceCalculator

K_toyota == <<"t", "o", "y", "o", "t", "a">>
K_honda == <<"h", "o", "n", "d", "a">>
K_ford == <<"f", "o", "r", "d">>
K_chevrolet == <<"c", "h", "e", "v", "r", "o", "l", "e", "t">>
K_bmw == <<"b", "m", "w">>
K_mercedes == <<"m", "e", "r", "c", "e", "d", "e", "s">>
K_audi == <<"a", "u", "d", "i">>
K_tesla == <<"t", "e", "s", "l", "a">>
K_default == <<"d", "e", "f", "a", "u", "l", "t">>

K_excellent == <<"e", "x", "c", "e", "l", "l", "e", "n", "t">>
K_good == <<"g", "o", "o", "d">>
K_fair == <<"f", "a", "i", "r">>
K_poor == <<"p", "o", "o", "r">>

\* the class attribute as first assigned, in percent
InitialMakeFactors ==
    (K_toyota :> 110) @@ (K_honda :> 108) @@ (K_ford :> 100)
    @@ (K_chevrolet :> 98) @@ (K_bmw :> 115) @@ (K_mercedes :> 120)
    @@ (K_audi :> 112) @@ (K_tesla :> 125) @@ (K_default :> 100)

\* dict.get(key, default)
DictGet(dict, key, default) == IF key \in DOMAIN dict THEN dict[key] ELSE default

\* self.MAKE_FACTORS.get(make, ...): the lookup without make.lower()
MakeFactorCaseSensitive(make) == DictGet(MAKE_FACTORS, make, MAKE_FACTORS[K_default])

\* self.MAKE_FACTORS.get(make.lower(), self.MAKE_FACTORS['default'])
MakeFactor(make) == DictGet(MAKE_FACTORS, Lower(make), MAKE_FACTORS[K_default])

MilesPerYear == 12000

DefaultMileage == 50000

\* 1 + (mileage_diff / expected_mileage * 0.1) if expected_mileage > 0 else 1
RawMileageFactor(age, mileage) ==
    LET expected_mileage == age * MilesPerYear
        mileage_diff == expected_mileage - mileage
    IN  IF expected_mileage > 0
        THEN FAdd(FOfInt(1),
                  FMul(FDiv(FOfInt(mileage_diff), FOfInt(expected_mileage)), FloatPct[10]))
        ELSE FOfInt(1)

\* the mileage factor left as computed, without the clamp
Unclamped(f) == f

\* max(0.7, min(1.3, mileage_factor))
Clamp(f) == FMax(FloatPct[70], FMin(FloatPct[130], f))

MileageFactor(age, mileage) == Clamp(RawMileageFactor(age, mileage))

\* f"{year} {make} {model}"
VehicleLabel(year, make, model) == IntStr(year) \o <<" ">> \o make \o <<" ">> \o model

\* f"{(factor - 1) * 100:+.1f}%"
Adjustment(factor) == FormatPct(FMul(FSub(factor, FOfInt(1)), FOfInt(100)))

\* the product had the mileage factor been left out of it
FinalValueWithoutMileage(depreciated_value, make_factor, condition_factor, mileage_factor) ==
    FMul(FMul(FOfMills(depreciated_value), FloatPct[make_factor]), FloatPct[condition_factor])

\* final_value = depreciated_value * make_factor * condition_factor * mileage_factor
FinalValue(depreciated_value, make_factor, condition_factor, mileage_factor) ==
    FMul(FMul(FMul(FOfMills(depreciated_value), FloatPct[make_factor]),
              FloatPct[condition_factor]),
         mileage_factor)

\* round(final_value, 2)
EstimatedValue(depreciated_value, make_factor, condition_factor, mileage_factor) ==
    Round2(FinalValue(depreciated_value, make_factor, condition_factor, mileage_factor))

\* calculate_market_value raises what get_depreciation_percentage raises
MarketValueRaises(base_price, year) == PercentageRaises(DepreciationModel(base_price, year))

calculate_market_value(make, model, year, base_price, condition, mileage) ==
    LET depreciation_model == DepreciationModel(base_price, year)
        depreciated_value == calculate_current_value(depreciation_model)
        make_factor == MakeFactor(make)
        condition_factor == condition
        mileage_factor == MileageFactor(depreciation_model.age, mileage)
    IN  [vehicle |-> VehicleLabel(year, make, model),
         base_price |-> base_price,
         depreciated_value |-> depreciated_value,
         make_adjustment |-> Adjustment(FloatPct[make_factor]),
         condition_adjustment |-> Adjustment(FloatPct[condition_factor]),
         mileage_adjustment |-> Adjustment(mileage_factor),
         estimated_value |->
            EstimatedValue(depreciated_value, make_factor, condition_factor, mileage_factor),
         depreciation_total |-> get_total_depreciation(depreciation_model),
         depreciation_percent |-> get_depreciation_percentage(depreciation_model)]

\* a record with one more field
WithField(rec, name, value) == (name :> value) @@ rec

\* the assignment had it also kept the score under the key of the percentage
\* the dictionary already has
ScoredOverPercent(value_data, price) ==
    WithField([value_data EXCEPT !.depreciation_percent =
                    PercentOf(value_data.estimated_value, price)],
              "value_score", PercentOf(value_data.estimated_value, price))

\* value_data['value_score'] = round((value_data['estimated_value'] / price) * 100, 1)
Scored(value_data, price) ==
    WithField(value_data, "value_score", PercentOf(value_data.estimated_value, price))

\* the body of the loop had it passed VehicleCondition.EXCELLENT
ValueDataAsExcellent(v) ==
    Scored(calculate_market_value(v.make, v.model, v.year, v.price, EXCELLENT,
                                  DefaultMileage),
           v.price)

\* the body of the loop of compare_vehicles
ValueData(v) ==
    Scored(calculate_market_value(v.make, v.model, v.year, v.price, GOOD, DefaultMileage),
           v.price)

\* an insertion that puts x before the elements of equal key, as an unstable
\* sort may
RECURSIVE InsertBeforeEqual(_, _)
InsertBeforeEqual(sorted, x) ==
    IF sorted = <<>> THEN <<x>>
    ELSE IF Head(sorted).value_score > x.value_score
         THEN <<Head(sorted)>> \o InsertBeforeEqual(Tail(sorted), x)
         ELSE <<x>> \o sorted

\* where sorted(..., reverse=True) puts x among already sorted elements:
\* after every element whose key is not smaller
RECURSIVE InsertDescending(_, _)
InsertDescending(sorted, x) ==
    IF sorted = <<>> THEN <<x>>
    ELSE IF Head(sorted).value_score >= x.value_score
         THEN <<Head(sorted)>> \o InsertDescending(Tail(sorted), x)
         ELSE <<x>> \o sorted

\* sorted(results, key=lambda x: x['value_score'], reverse=True)
RECURSIVE SortedDescending(_)
SortedDescending(results) ==
    IF results = <<>> THEN <<>>
    ELSE InsertDescending(SortedDescending(SubSeq(results, 1, Len(results) - 1)),
                          results[Len(results)])

CompareRaises(vs) == \E i \in 1..Len(vs) : MarketValueRaises(vs[i].price, vs[i].year)

\* results after the loop "for v in vehicles: ... results.append(value_data)"
RECURSIVE ValueResults(_)
ValueResults(vs) ==
    IF vs = <<>> THEN <<>>
    ELSE ValueResults(SubSeq(vs, 1, Len(vs) - 1)) \o <<ValueData(vs[Len(vs)])>>

compare_vehicles(vs) == SortedDescending(ValueResults(vs))

\* the local condition_map of get_price_suggestion
condition_map ==
    (K_excellent :> EXCELLENT) @@ (K_good :> GOOD) @@ (K_fair :> FAIR) @@ (K_poor :> POOR)

\* the local base_msrp of get_price_suggestion, in currency units
base_msrp ==
    (K_toyota :> 35000) @@ (K_honda :> 32000) @@ (K_ford :> 38000)
    @@ (K_chevrolet :> 36000) @@ (K_bmw :> 55000) @@ (K_mercedes :> 60000)
    @@ (K_audi :> 52000) @@ (K_tesla :> 50000) @@ (K_default :> 35000)

\* a whole number of currency units in mills
Mills(units) == units * 1000

\* base_msrp.get(make.lower(), base_msrp['default'])
Msrp(make) == DictGet(base_msrp, Lower(make), base_msrp[K_default])

\* condition_map.get(condition, ...): the lookup without condition.lower()
ConditionCaseSensitive(condition) == DictGet(condition_map, condition, GOOD)

\* condition_map.get(condition.lower(), VehicleCondition.GOOD)
ConditionOf(condition) == DictGet(condition_map, Lower(condition), GOOD)

\* the suggestion had the baseline MSRP not been depreciated
PriceSuggestionUndepreciated(make, year, condition) ==
    LET adjusted_value == FMul(FOfMills(Mills(Msrp(make))), FloatPct[ConditionOf(condition)])
    IN  [suggested_min |-> Round2(FMul(adjusted_value, FloatPct[95])),
         suggested_price |-> Round2(adjusted_value),
         suggested_max |-> Round2(FMul(adjusted_value, FloatPct[105])),
         condition |-> condition,
         vehicle_age |-> CurrentYear - year]

get_price_suggestion(make, year, condition) ==
    LET msrp == Msrp(make)
        cond == ConditionOf(condition)
        depreciation == DepreciationModel(Mills(msrp), year)
        base_value == calculate_current_value(depreciation)
        adjusted_value == FMul(FOfMills(base_value), FloatPct[cond])
    IN  [suggested_min |-> Round2(FMul(adjusted_value, FloatPct[95])),
         suggested_price |-> Round2(adjusted_value),
         suggested_max |-> Round2(FMul(adjusted_value, FloatPct[105])),
         condition |-> condition,
         vehicle_age |-> depreciation.age]

\* ------------------------------------------------------------------ inputs

Ages == (-MaxFuture)..MaxAge

Years == {CurrentYear - a : a \in Ages}

\* prices in mills: zero, sub-cent and whole-cent prices, small and large
Prices == {0, 7, 10, 100006, 100040, 9999990, 30000000}

Makes == {K_toyota, <<"T", "E", "S", "L", "A">>, K_chevrolet, <<"z", "z">>}

Models == {<<"X">>}

ConditionStrings ==
    {K_good, <<"G", "O", "O", "D">>, K_excellent, K_fair, <<"P", "o", "o", "r">>,
     <<"m", "i", "n", "t">>}

Mileages == {-50000, 0, 36000, 400000}

\* the inputs of calculate_market_value and get_price_suggestion, fewer than
\* those of the model's own operations because they multiply
MarketMakes == {K_toyota, <<"T", "E", "S", "L", "A">>, <<"z", "z">>}

MarketYears == {CurrentYear - a : a \in {-1, 0, 1, 3, MaxAge - 4}}

MarketPrices == {0, 100040, 30000000}

SuggestionYears == {CurrentYear - a : a \in {-MaxFuture, 0, 1, 2, 3, 6, 10, MaxAge}}

\* the vehicles a caller of compare_vehicles draws its list from
VehiclePool ==
    {[make |-> K_toyota, model |-> <<"A">>, year |-> CurrentYear - 3, price |-> 30000000],
     [make |-> <<"T", "o", "y", "o", "t", "a">>, model |-> <<"B">>,
      year |-> CurrentYear - 3, price |-> 20000000],
     [make |-> K_tesla, model |-> <<"C">>, year |-> CurrentYear - 1, price |-> 50000000],
     [make |-> K_ford, model |-> <<"E">>, year |-> CurrentYear - 6, price |-> 9999990],
     [make |-> K_ford, model |-> <<"F">>, year |-> CurrentYear, price |-> 0]}

\* lists of distinct vehicles of the pool, up to MaxVehicles long
VehicleLists ==
    UNION {{vs \in [1..n -> VehiclePool] : \A i, j \in 1..n : vs[i] = vs[j] => i = j}
           : n \in 0..MaxVehicles}

\* ------------------------------------------------------------- the machine

Returned(value) == [kind |-> "return", value |-> value]

Raised(error) == [kind |-> "raise", value |-> error]

\* the module has been imported and PriceCalculator() constructed; no call
\* has been made
Constructed ==
    /\ DEPRECIATION_RATES = InitialDepreciationRates
    /\ MAKE_FACTORS = InitialMakeFactors
    /\ adjustments = <<>>
    /\ vehicles = <<>>
    /\ call = [op |-> "none"]
    /\ result = [kind |-> "none"]

\* VehicleManager(): self._vehicles = []; its caller has made no call
NoManager ==
    /\ manager = <<>>
    /\ caller = [op |-> "none", args |-> <<>>, result |-> [kind |-> "none"],
                 same |-> FALSE, added |-> 0, removed |-> 0]

\* the web application is not running: analytics = VehicleAnalytics() holds
\* the empty list of its __init__, no row, no request
NotServing ==
    /\ table = <<>>
    /\ analytics = <<>>
    /\ requests = <<>>
    /\ activity = <<>>
    /\ request = [op |-> "none", user |-> 0, id |-> 0, outcome |-> "none",
                  served |-> 0]

\* one caller at a time: no other thread enters or leaves a call
Sequential ==
    UNCHANGED <<threads, frames, table, analytics, requests, activity, request,
                manager, caller>>

Init ==
    /\ Constructed
    /\ NoManager
    /\ NotServing
    /\ threads = <<>>
    /\ frames = <<>>

\* the frame had an operation recorded what it applied, as the name of the
\* list suggests: self.adjustments.append(...)
FrameRecording ==
    /\ UNCHANGED <<DEPRECIATION_RATES, MAKE_FACTORS>>
    /\ adjustments' = Append(adjustments, "adjustment")

\* no operation assigns the tables or the instance's list
Frame == UNCHANGED <<DEPRECIATION_RATES, MAKE_FACTORS, adjustments>>

\* the caller is between two calls
Idle == call.op = "none"

CallCurrentValue ==
    \E p \in Prices, y \in Years :
        /\ Idle
        /\ call' = [op |-> "calculate_current_value", original_price |-> p, year |-> y]
        /\ result' = Returned(calculate_current_value(DepreciationModel(p, y)))
        /\ vehicles' = <<>>
        /\ Frame
        /\ Sequential

CallSchedule ==
    \E p \in Prices, y \in Years :
        /\ Idle
        /\ call' = [op |-> "get_depreciation_schedule", original_price |-> p, year |-> y]
        /\ result' = Returned(get_depreciation_schedule(DepreciationModel(p, y)))
        /\ vehicles' = <<>>
        /\ Frame
        /\ Sequential

CallTotalDepreciation ==
    \E p \in Prices, y \in Years :
        /\ Idle
        /\ call' = [op |-> "get_total_depreciation", original_price |-> p, year |-> y]
        /\ result' = Returned(get_total_depreciation(DepreciationModel(p, y)))
        /\ vehicles' = <<>>
        /\ Frame
        /\ Sequential

CallDepreciationPercentage ==
    \E p \in Prices, y \in Years :
        /\ Idle
        /\ call' = [op |-> "get_depreciation_percentage", original_price |-> p, year |-> y]
        /\ result' = IF PercentageRaises(DepreciationModel(p, y))
                     THEN Raised("ZeroDivisionError")
                     ELSE Returned(get_depreciation_percentage(DepreciationModel(p, y)))
        /\ vehicles' = <<>>
        /\ Frame
        /\ Sequential

CallMarketValue ==
    \E mk \in MarketMakes, md \in Models, y \in MarketYears, p \in MarketPrices,
       c \in VehicleCondition, mi \in Mileages :
        /\ Idle
        /\ call' = [op |-> "calculate_market_value", make |-> mk, model |-> md, year |-> y,
                    base_price |-> p, condition |-> c, mileage |-> mi]
        /\ result' = IF MarketValueRaises(p, y)
                     THEN Raised("ZeroDivisionError")
                     ELSE Returned(calculate_market_value(mk, md, y, p, c, mi))
        /\ vehicles' = <<>>
        /\ Frame
        /\ Sequential

CallCompareVehicles ==
    \E vs \in VehicleLists :
        /\ Idle
        /\ call' = [op |-> "compare_vehicles", vehicles |-> vs]
        /\ result' = IF CompareRaises(vs)
                     THEN Raised("ZeroDivisionError")
                     ELSE Returned(compare_vehicles(vs))
        /\ vehicles' = vs
        /\ Frame
        /\ Sequential

CallPriceSuggestion ==
    \E mk \in Makes, y \in SuggestionYears, c \in ConditionStrings :
        /\ Idle
        /\ call' = [op |-> "get_price_suggestion", make |-> mk, year |-> y, condition |-> c]
        /\ result' = Returned(get_price_suggestion(mk, y, c))
        /\ vehicles' = <<>>
        /\ Frame
        /\ Sequential

\* the caller has used the result and is ready for its next call
Return ==
    /\ ~Idle
    /\ call' = [op |-> "none"]
    /\ result' = [kind |-> "none"]
    /\ vehicles' = <<>>
    /\ Frame
    /\ Sequential

Next ==
    \/ CallCurrentValue
    \/ CallSchedule
    \/ CallTotalDepreciation
    \/ CallDepreciationPercentage
    \/ CallMarketValue
    \/ CallCompareVehicles
    \/ CallPriceSuggestion
    \/ Return

Spec == Init /\ [][Next]_vars

\* ------------------------------------------------------ concurrent callers
\*
\* Threads of the web server call calculate_market_value and
\* get_price_suggestion of the one module-level PriceCalculator.  A thread
\* may be interrupted between any two statements of the method it runs, so
\* each statement is a step; pc names the line of the statement a thread
\* executes next.  The parameters and local variables of an invocation are
\* in its frame.

Threads == 1..NumThreads

\* the calls the threads make
MarketCalls ==
    {[make |-> K_toyota, model |-> <<"A">>, year |-> CurrentYear - 3,
      base_price |-> 30000000, condition |-> GOOD, mileage |-> 36000],
     [make |-> <<"z", "z">>, model |-> <<"B">>, year |-> CurrentYear - 1,
      base_price |-> 100040, condition |-> POOR, mileage |-> 400000],
     [make |-> K_tesla, model |-> <<"C">>, year |-> CurrentYear,
      base_price |-> 0, condition |-> EXCELLENT, mileage |-> 0]}

SuggestionCalls ==
    {[make |-> K_toyota, year |-> CurrentYear - 1, condition |-> K_good],
     [make |-> <<"B", "M", "W">>, year |-> CurrentYear - 6, condition |-> K_fair]}

\* the frame of calculate_market_value when it is entered: the parameters
\* are bound, the local variables are not (their values here are never
\* read before the statement that assigns them)
MarketFrame(a) ==
    [make |-> a.make, model |-> a.model, year |-> a.year, base_price |-> a.base_price,
     condition |-> a.condition, mileage |-> a.mileage,
     depreciation_model |-> DepreciationModel(0, CurrentYear),
     depreciated_value |-> 0, make_factor |-> 0, condition_factor |-> 0,
     mileage_factor |-> FZero, final_value |-> FZero]

\* the frame of get_price_suggestion when it is entered
SuggestionFrame(a) ==
    [make |-> a.make, year |-> a.year, condition |-> a.condition,
     msrp |-> 0, cond |-> 0, depreciation |-> DepreciationModel(0, CurrentYear),
     base_value |-> 0, adjusted_value |-> FZero]

\* no frame: the invocation has returned, or none was made
NoFrame ==
    [market |-> MarketFrame([make |-> <<>>, model |-> <<>>, year |-> CurrentYear,
                             base_price |-> 0, condition |-> 0, mileage |-> 0]),
     suggestion |-> SuggestionFrame([make |-> <<>>, year |-> CurrentYear,
                                     condition |-> <<>>])]

NotCalling == [pc |-> "idle", op |-> "none", args |-> <<>>, result |-> [kind |-> "none"]]

\* the frame had the values been kept in attributes of the shared instance
\* (self.make_factor = ...) instead of local variables: one for all threads
FrameOfInstance(t) == 1

\* the frame of the invocation thread t is in: its own
FrameOf(t) == t

\* the parameters and locals thread t reads
Locals(t) == frames[FrameOf(t)]

InitConcurrent ==
    /\ Constructed
    /\ NoManager
    /\ NotServing
    /\ threads = [t \in Threads |-> NotCalling]
    /\ frames = [t \in Threads |-> NoFrame]

\* the threads use the instance; the single caller of the other
\* specification makes no call
Threaded ==
    /\ Frame
    /\ UNCHANGED <<vehicles, call, result, table, analytics, requests, activity,
                   request, manager, caller>>

\* a thread enters calculate_market_value
EnterMarketValue(t) ==
    \E a \in MarketCalls :
        /\ threads[t].pc = "idle"
        /\ threads' = [threads EXCEPT ![t] = [pc |-> "L87", op |-> "calculate_market_value",
                                               args |-> a, result |-> [kind |-> "none"]]]
        /\ frames' = [frames EXCEPT ![FrameOf(t)].market = MarketFrame(a)]
        /\ Threaded

\* depreciation_model = DepreciationModel(base_price, year)
\* depreciated_value = depreciation_model.calculate_current_value()
MarketDepreciation(t) ==
    /\ threads[t].pc = "L87"
    /\ frames' =
        [frames EXCEPT
            ![FrameOf(t)].market.depreciation_model =
                DepreciationModel(Locals(t).market.base_price, Locals(t).market.year),
            ![FrameOf(t)].market.depreciated_value =
                calculate_current_value(
                    DepreciationModel(Locals(t).market.base_price, Locals(t).market.year))]
    /\ threads' = [threads EXCEPT ![t].pc = "L91"]
    /\ Threaded

\* make_factor = self.MAKE_FACTORS.get(make.lower(), self.MAKE_FACTORS['default'])
MarketMakeFactor(t) ==
    /\ threads[t].pc = "L91"
    /\ frames' = [frames EXCEPT
                    ![FrameOf(t)].market.make_factor = MakeFactor(Locals(t).market.make)]
    /\ threads' = [threads EXCEPT ![t].pc = "L94"]
    /\ Threaded

\* condition_factor = condition.value, and the statements of the mileage
\* adjustment, which read and assign locals only
MarketFactors(t) ==
    /\ threads[t].pc = "L94"
    /\ frames' =
        [frames EXCEPT
            ![FrameOf(t)].market.condition_factor = Locals(t).market.condition,
            ![FrameOf(t)].market.mileage_factor =
                MileageFactor(Locals(t).market.depreciation_model.age,
                              Locals(t).market.mileage)]
    /\ threads' = [threads EXCEPT ![t].pc = "L103"]
    /\ Threaded

\* final_value = depreciated_value * make_factor * condition_factor * mileage_factor
MarketFinalValue(t) ==
    /\ threads[t].pc = "L103"
    /\ frames' =
        [frames EXCEPT
            ![FrameOf(t)].market.final_value =
                FinalValue(Locals(t).market.depreciated_value, Locals(t).market.make_factor,
                           Locals(t).market.condition_factor,
                           Locals(t).market.mileage_factor)]
    /\ threads' = [threads EXCEPT ![t].pc = "L105"]
    /\ Threaded

\* the dictionary of the return statement, built from the locals
MarketDict(f) ==
    [vehicle |-> VehicleLabel(f.year, f.make, f.model),
     base_price |-> f.base_price,
     depreciated_value |-> f.depreciated_value,
     make_adjustment |-> Adjustment(FloatPct[f.make_factor]),
     condition_adjustment |-> Adjustment(FloatPct[f.condition_factor]),
     mileage_adjustment |-> Adjustment(f.mileage_factor),
     estimated_value |-> Round2(f.final_value),
     depreciation_total |-> get_total_depreciation(f.depreciation_model),
     depreciation_percent |-> get_depreciation_percentage(f.depreciation_model)]

\* return {...}, unless get_depreciation_percentage raises: the invocation
\* ends and its frame with it
MarketReturn(t) ==
    /\ threads[t].pc = "L105"
    /\ threads' =
        [threads EXCEPT
            ![t].pc = "done",
            ![t].result = IF PercentageRaises(Locals(t).market.depreciation_model)
                          THEN Raised("ZeroDivisionError")
                          ELSE Returned(MarketDict(Locals(t).market))]
    /\ frames' = [frames EXCEPT ![FrameOf(t)] = NoFrame]
    /\ Threaded

\* a thread enters get_price_suggestion, as view_vehicle does
EnterPriceSuggestion(t) ==
    \E a \in SuggestionCalls :
        /\ threads[t].pc = "idle"
        /\ threads' = [threads EXCEPT ![t] = [pc |-> "L149", op |-> "get_price_suggestion",
                                               args |-> a, result |-> [kind |-> "none"]]]
        /\ frames' = [frames EXCEPT ![FrameOf(t)].suggestion = SuggestionFrame(a)]
        /\ Threaded

\* msrp = base_msrp.get(...); cond = condition_map.get(...)
SuggestionLookups(t) ==
    /\ threads[t].pc = "L149"
    /\ frames' =
        [frames EXCEPT
            ![FrameOf(t)].suggestion.msrp = Msrp(Locals(t).suggestion.make),
            ![FrameOf(t)].suggestion.cond = ConditionOf(Locals(t).suggestion.condition)]
    /\ threads' = [threads EXCEPT ![t].pc = "L152"]
    /\ Threaded

\* depreciation = DepreciationModel(msrp, year)
\* base_value = depreciation.calculate_current_value()
SuggestionDepreciation(t) ==
    /\ threads[t].pc = "L152"
    /\ frames' =
        [frames EXCEPT
            ![FrameOf(t)].suggestion.depreciation =
                DepreciationModel(Mills(Locals(t).suggestion.msrp), Locals(t).suggestion.year),
            ![FrameOf(t)].suggestion.base_value =
                calculate_current_value(
                    DepreciationModel(Mills(Locals(t).suggestion.msrp),
                                      Locals(t).suggestion.year))]
    /\ threads' = [threads EXCEPT ![t].pc = "L154"]
    /\ Threaded

\* adjusted_value = base_value * cond.value
SuggestionAdjusted(t) ==
    /\ threads[t].pc = "L154"
    /\ frames' =
        [frames EXCEPT
            ![FrameOf(t)].suggestion.adjusted_value =
                FMul(FOfMills(Locals(t).suggestion.base_value),
                     FloatPct[Locals(t).suggestion.cond])]
    /\ threads' = [threads EXCEPT ![t].pc = "L156"]
    /\ Threaded

\* the dictionary of the return statement, built from the locals
SuggestionDict(f) ==
    [suggested_min |-> Round2(FMul(f.adjusted_value, FloatPct[95])),
     suggested_price |-> Round2(f.adjusted_value),
     suggested_max |-> Round2(FMul(f.adjusted_value, FloatPct[105])),
     condition |-> f.condition,
     vehicle_age |-> f.depreciation.age]

SuggestionReturn(t) ==
    /\ threads[t].pc = "L156"
    /\ threads' = [threads EXCEPT
                     ![t].pc = "done",
                     ![t].result = Returned(SuggestionDict(Locals(t).suggestion))]
    /\ frames' = [frames EXCEPT ![FrameOf(t)] = NoFrame]
    /\ Threaded

\* the thread has used the result and is ready for its next call
ThreadDone(t) ==
    /\ threads[t].pc = "done"
    /\ threads' = [threads EXCEPT ![t] = NotCalling]
    /\ UNCHANGED frames
    /\ Threaded

NextConcurrent ==
    \E t \in Threads :
        \/ EnterMarketValue(t)
        \/ MarketDepreciation(t)
        \/ MarketMakeFactor(t)
        \/ MarketFactors(t)
        \/ MarketFinalValue(t)
        \/ MarketReturn(t)
        \/ EnterPriceSuggestion(t)
        \/ SuggestionLookups(t)
        \/ SuggestionDepreciation(t)
        \/ SuggestionAdjusted(t)
        \/ SuggestionReturn(t)
        \/ ThreadDone(t)

SpecConcurrent == InitConcurrent /\ [][NextConcurrent]_vars

\* -------------------------------------------------------- VehicleAnalytics
\* A vehicle is the dict the routes build: make and model are strings, year
\* an int, price a float written in mills.

\* the order of str comparison among the characters used here: digits, then
\* upper case, then lower case, as their code points are
Ordinal(c) ==
    LET alphabet == DigitChar \o UpperCase \o LowerCase
    IN  CHOOSE i \in 1..Len(alphabet) : alphabet[i] = c

\* a < b of two str
RECURSIVE StrLess(_, _)
StrLess(a, b) ==
    IF a = <<>> THEN b # <<>>
    ELSE IF b = <<>> THEN FALSE
    ELSE IF Head(a) = Head(b) THEN StrLess(Tail(a), Tail(b))
    ELSE Ordinal(Head(a)) < Ordinal(Head(b))

\* sum(v.get('price', 0) for v in self.vehicles), from the start value 0
RECURSIVE SumOfPrices(_, _)
SumOfPrices(vs, total) ==
    IF vs = <<>> THEN total
    ELSE SumOfPrices(Tail(vs), FAdd(total, FOfMills(DictGet(Head(vs), "price", 0))))

\* get_average_price, in mills
get_average_price(vs) ==
    IF vs = <<>> THEN 0
    ELSE Round2(FDiv(SumOfPrices(vs, FZero), FOfInt(Len(vs))))

\* get_price_range, in mills; the floats compare as their mills do
get_price_range(vs) ==
    IF vs = <<>> THEN [min |-> 0, max |-> 0]
    ELSE LET prices == {DictGet(vs[i], "price", 0) : i \in 1..Len(vs)}
         IN  [min |-> CHOOSE p \in prices : \A q \in prices : p <= q,
              max |-> CHOOSE p \in prices : \A q \in prices : q <= p]

\* the loop had it written count[x] = 1
CountedOnce(vs, key, default) ==
    [x \in {DictGet(vs[i], key, default) : i \in 1..Len(vs)} |-> 1]

\* the counting loop of get_vehicles_by_year and get_vehicles_by_make:
\* count[x] = count.get(x, 0) + 1 with x = v.get(key, default)
CountBy(vs, key, default) ==
    LET found == {DictGet(vs[i], key, default) : i \in 1..Len(vs)}
    IN  [x \in found |->
            Cardinality({i \in 1..Len(vs) : DictGet(vs[i], key, default) = x})]

\* dict(sorted(count.items())): the items in the order of their keys, where
\* before holds the pairs of keys of which the first is less
SortedItems(count, before) ==
    [i \in 1..Cardinality(DOMAIN count) |->
        LET key == CHOOSE k \in DOMAIN count :
                       Cardinality({j \in DOMAIN count : <<j, k>> \in before}) = i - 1
        IN  <<key, count[key]>>]

get_vehicles_by_year(vs) ==
    LET count == CountBy(vs, "year", 0)
    IN  SortedItems(count, {p \in (DOMAIN count) \X (DOMAIN count) : p[1] < p[2]})

get_vehicles_by_make(vs) ==
    LET count == CountBy(vs, "make", <<"U", "n", "k", "n", "o", "w", "n">>)
    IN  SortedItems(count,
                    {p \in (DOMAIN count) \X (DOMAIN count) : StrLess(p[1], p[2])})

\* sum(current_year - v.get('year', current_year) for v in self.vehicles)
RECURSIVE TotalAge(_)
TotalAge(vs) ==
    IF vs = <<>> THEN 0
    ELSE (CurrentYear - DictGet(Head(vs), "year", CurrentYear)) + TotalAge(Tail(vs))

\* get_average_age, in tenths of a year
get_average_age(vs) ==
    IF vs = <<>> THEN 0
    ELSE PyRound(FDiv(FOfInt(TotalAge(vs)), FOfInt(Len(vs))), 1)

\* the keys of get_summary's dict display, in the order their values are
\* evaluated
SummaryKeys ==
    <<"total_vehicles", "average_price", "price_range", "average_age",
      "by_make", "by_year">>

\* the value get_summary computes for one key from self.vehicles
SummaryEntry(key, vs) ==
    CASE key = "total_vehicles" -> Len(vs)
      [] key = "average_price" -> get_average_price(vs)
      [] key = "price_range" -> get_price_range(vs)
      [] key = "average_age" -> get_average_age(vs)
      [] key = "by_make" -> get_vehicles_by_make(vs)
      [] key = "by_year" -> get_vehicles_by_year(vs)

\* get_summary when nothing else touches self.vehicles meanwhile
get_summary(vs) ==
    [key \in {SummaryKeys[i] : i \in 1..Len(SummaryKeys)} |-> SummaryEntry(key, vs)]

\* ---------------------------------------- the dashboard and analytics pages
\* The requests of dashboard() and analytics_page() run in the server's
\* threads and share the module-level analytics object. A thread may be
\* suspended between any two of its steps; the steps below are the handler's
\* statements and, inside get_summary, the evaluation of one entry of its
\* dict, each taken whole.

Requests == 1..NumRequests

Users == 1..NumUsers

\* the rows the pages are served from
ServedTable ==
    <<[id |-> 1, make |-> <<"T", "o", "y", "o", "t", "a">>, model |-> <<"C">>,
       year |-> 2020, price |-> 20000000, description |-> "", image_url |-> "",
       user_id |-> 1],
      [id |-> 2, make |-> <<"H", "o", "n", "d", "a">>, model |-> <<"J">>,
       year |-> 2015, price |-> 8000550, description |-> "", image_url |-> "",
       user_id |-> 1],
      [id |-> 3, make |-> <<"B", "M", "W">>, model |-> <<"X">>,
       year |-> 2023, price |-> 55000000, description |-> "", image_url |-> "",
       user_id |-> 2]>>

\* Vehicle.query.filter_by(user_id=...).all()
FilterByUser(rows, user) == SelectSeq(rows, LAMBDA v : v.user_id = user)

\* [{'make': v.make, 'model': v.model, 'year': v.year, 'price': v.price}
\*  for v in vehicles]
VehicleData(rows) ==
    [i \in 1..Len(rows) |->
        [make |-> rows[i].make, model |-> rows[i].model, year |-> rows[i].year,
         price |-> rows[i].price]]

NoRequest ==
    [pc |-> "idle", route |-> "none", user |-> 0, vehicle_data |-> <<>>,
     entries |-> 0, summary |-> <<>>]

InitServing ==
    /\ Constructed
    /\ NoManager
    /\ threads = <<>>
    /\ frames = <<>>
    /\ table = ServedTable
    /\ analytics = <<>>
    /\ requests = [r \in Requests |-> NoRequest]
    /\ activity = <<>>
    /\ request = [op |-> "none", user |-> 0, id |-> 0, outcome |-> "none",
                  served |-> 0]

\* the pages read the table and use the analytics object only
Serving ==
    /\ Frame
    /\ UNCHANGED <<vehicles, call, result, threads, frames, table, activity,
                   request, manager, caller>>

\* a logged-in user asks for /dashboard or /analytics
Request(r) ==
    /\ requests[r].pc = "idle"
    /\ \E user \in Users, route \in {"dashboard", "analytics"} :
         requests' = [requests EXCEPT ![r] =
                         [NoRequest EXCEPT !.pc = "L97", !.route = route,
                                           !.user = user]]
    /\ UNCHANGED analytics
    /\ Serving

\* the query and the list comprehension: the user's vehicles for the
\* dashboard, all vehicles for the analytics page
BuildVehicleData(r) ==
    /\ requests[r].pc = "L97"
    /\ requests' = [requests EXCEPT
            ![r].pc = "L101",
            ![r].vehicle_data =
                VehicleData(IF requests[r].route = "dashboard"
                            THEN FilterByUser(table, requests[r].user)
                            ELSE table)]
    /\ UNCHANGED analytics
    /\ Serving

\* analytics.set_vehicles(vehicle_data)
set_vehicles(r) ==
    /\ requests[r].pc = "L101"
    /\ analytics' = requests[r].vehicle_data
    /\ requests' = [requests EXCEPT ![r].pc = "L102"]
    /\ Serving

\* analytics.get_summary(), one entry of its dict: the entry is computed from
\* the list analytics holds now
EvaluateEntry(r) ==
    /\ requests[r].pc = "L102"
    /\ requests[r].entries < Len(SummaryKeys)
    /\ LET key == SummaryKeys[requests[r].entries + 1]
       IN  requests' = [requests EXCEPT
               ![r].entries = @ + 1,
               ![r].summary = @ @@ (key :> SummaryEntry(key, analytics))]
    /\ UNCHANGED analytics
    /\ Serving

\* render_template(..., analytics=summary)
Render(r) ==
    /\ requests[r].pc = "L102"
    /\ requests[r].entries = Len(SummaryKeys)
    /\ requests' = [requests EXCEPT ![r].pc = "done"]
    /\ UNCHANGED analytics
    /\ Serving

NextServing ==
    \E r \in Requests :
        \/ Request(r)
        \/ BuildVehicleData(r)
        \/ set_vehicles(r)
        \/ EvaluateEntry(r)
        \/ Render(r)

SpecServing == InitServing /\ [][NextServing]_vars

\* ----------------------------------------- adding, editing, deleting vehicles
\* The requests of add_vehicle, edit_vehicle and delete_vehicle, each served
\* whole. A row of the table is a Vehicle: image_url holds the file name the
\* S3 key ends with, <<>> for None. The activity log is the list of the items
\* put, without their timestamps.

\* current_user: a registered user, or 0 when nobody is logged in
Visitors == Users \cup {0}

\* ids the database hands out; which one a new row gets is the database's
\* choice among those not in use
Ids == 1..MaxServed

\* what the browser submits: a GET, or a POST of the form's fields
Submissions ==
    LET post == [method |-> "POST", make |-> <<"K", "i", "a">>, model |-> <<"M">>,
                 year |-> 2021, price |-> 9000000, description |-> "d",
                 image |-> <<>>]
    IN  { [post EXCEPT !.method = "GET"],
          post,
          [post EXCEPT !.price = 12000500, !.image = <<"a", ".", "P", "N", "G">>],
          [post EXCEPT !.description = "", !.image = <<"x", ".", "s", "h">>],
          [post EXCEPT !.year = 2031] }

\* what a call of an AWS service does: it works, it catches a ClientError and
\* reports no success, or another exception leaves the handler
ServiceOutcomes == {"ok", "ClientError", "raises"}

\* form.validate_on_submit() of a VehicleForm: DataRequired on make, model,
\* year and price, Length(max=100), NumberRange(1900, 2030), NumberRange(min=0)
validate_on_submit(form) ==
    /\ form.method = "POST"
    /\ form.make # <<>> /\ Len(form.make) <= 100
    /\ form.model # <<>> /\ Len(form.model) <= 100
    /\ form.year # 0 /\ 1900 <= form.year /\ form.year <= 2030
    /\ form.price # 0 /\ form.price >= 0

ALLOWED_EXTENSIONS ==
    {<<"p", "n", "g">>, <<"j", "p", "g">>, <<"j", "p", "e", "g">>, <<"g", "i", "f">>}

\* '.' in filename and filename.rsplit('.', 1)[1].lower() in ALLOWED_EXTENSIONS
allowed_file(filename) ==
    LET dots == {i \in 1..Len(filename) : filename[i] = "."}
    IN  /\ dots # {}
        /\ LET last == CHOOSE i \in dots : \A j \in dots : j <= i
           IN  Lower(SubSeq(filename, last + 1, Len(filename))) \in ALLOWED_EXTENSIONS

\* the image the handlers store: the uploaded file's when one was sent, its
\* name is allowed and the upload succeeded; otherwise the one held before
ImageUrl(form, upload, before) ==
    IF form.image # <<>> /\ allowed_file(form.image) /\ upload = "ok"
    THEN form.image
    ELSE before

\* Vehicle.query.get(id): the positions of the row with this id
RowsWithId(id) == {i \in 1..Len(table) : table[i].id = id}

\* the handlers had let every logged-in user through
AnyLoggedInUser(vehicle, user) == user # 0

\* vehicle.user_id != current_user.id, negated
IsOwner(vehicle, user) == vehicle.user_id = user

\* dynamodb_service.log_activity(user_id, action, details) after
\* cloudwatch_service.log_event(...): the item is put when both calls work
Logged(logging, user, action, details) ==
    IF logging = "ok"
    THEN Append(activity, [user_id |-> IntStr(user), action |-> action,
                           details |-> details])
    ELSE activity

\* the request just served, and how many have been
Served(op, user, id, outcome) ==
    request' = [op |-> op, user |-> user, id |-> id, outcome |-> outcome,
                served |-> request.served + 1]

\* the same for add_vehicle, with the form submitted and what the upload
\* would do
Submitted(user, id, form, upload, outcome) ==
    request' = [op |-> "add", user |-> user, id |-> id, outcome |-> outcome,
                served |-> request.served + 1, form |-> form, upload |-> upload]

InitWeb ==
    /\ Constructed
    /\ NoManager
    /\ threads = <<>>
    /\ frames = <<>>
    /\ table = <<>>
    /\ analytics = <<>>
    /\ requests = <<>>
    /\ activity = <<>>
    /\ request = [op |-> "none", user |-> 0, id |-> 0, outcome |-> "none",
                  served |-> 0]

\* the handlers use the table and the activity log only
Web ==
    /\ request.served < MaxServed
    /\ Frame
    /\ UNCHANGED <<vehicles, call, result, threads, frames, analytics, requests,
                   manager, caller>>

\* /vehicle/add
add_vehicle(user, form, upload, logging) ==
    /\ Web
    /\ IF user = 0
       THEN Submitted(user, 0, form, upload, "login") /\ UNCHANGED <<table, activity>>
       ELSE IF ~validate_on_submit(form)
       THEN Submitted(user, 0, form, upload, "form") /\ UNCHANGED <<table, activity>>
       ELSE IF upload = "raises"
       THEN Submitted(user, 0, form, upload, "error") /\ UNCHANGED <<table, activity>>
       ELSE \E id \in Ids \ {table[i].id : i \in 1..Len(table)} :
              /\ table' = Append(table,
                     [id |-> id, make |-> form.make, model |-> form.model,
                      year |-> form.year, price |-> form.price,
                      description |-> form.description,
                      image_url |-> ImageUrl(form, upload, <<>>),
                      user_id |-> user])
              /\ activity' = Logged(logging, user, "ADD_VEHICLE",
                     [vehicle_id |-> id, make |-> form.make, model |-> form.model])
              /\ Submitted(user, id, form, upload,
                           IF logging = "raises" THEN "error" ELSE "added")

\* /vehicle/edit/<id>
edit_vehicle(user, id, form, upload, logging) ==
    /\ Web
    /\ IF user = 0
       THEN Served("edit", user, id, "login") /\ UNCHANGED <<table, activity>>
       ELSE IF RowsWithId(id) = {}
       THEN Served("edit", user, id, "404") /\ UNCHANGED <<table, activity>>
       ELSE LET i == CHOOSE i \in RowsWithId(id) : TRUE
            IN  IF ~IsOwner(table[i], user)
                THEN Served("edit", user, id, "unauthorized")
                     /\ UNCHANGED <<table, activity>>
                ELSE IF ~validate_on_submit(form)
                THEN Served("edit", user, id, "form")
                     /\ UNCHANGED <<table, activity>>
                ELSE IF upload = "raises"
                THEN Served("edit", user, id, "error")
                     /\ UNCHANGED <<table, activity>>
                ELSE /\ table' = [table EXCEPT ![i] =
                            [@ EXCEPT !.make = form.make, !.model = form.model,
                                      !.year = form.year, !.price = form.price,
                                      !.description = form.description,
                                      !.image_url = ImageUrl(form, upload, @)]]
                     /\ activity' = Logged(logging, user, "EDIT_VEHICLE",
                                           [vehicle_id |-> id])
                     /\ Served("edit", user, id,
                               IF logging = "raises" THEN "error" ELSE "updated")

\* /vehicle/delete/<id>: the activity is logged before the row is deleted
delete_vehicle(user, id, logging) ==
    /\ Web
    /\ IF user = 0
       THEN Served("delete", user, id, "login") /\ UNCHANGED <<table, activity>>
       ELSE IF RowsWithId(id) = {}
       THEN Served("delete", user, id, "404") /\ UNCHANGED <<table, activity>>
       ELSE LET i == CHOOSE i \in RowsWithId(id) : TRUE
            IN  IF ~IsOwner(table[i], user)
                THEN Served("delete", user, id, "unauthorized")
                     /\ UNCHANGED <<table, activity>>
                ELSE /\ activity' = Logged(logging, user, "DELETE_VEHICLE",
                            [vehicle_id |-> id, make |-> table[i].make])
                     /\ IF logging = "raises"
                        THEN Served("delete", user, id, "error")
                             /\ UNCHANGED table
                        ELSE Served("delete", user, id, "deleted")
                             /\ table' = SelectSeq(table, LAMBDA v : v.id # id)

\* the outcomes of s3_service.upload_file that the handler can meet: it is
\* called only for an image with an allowed name
Uploads(form) ==
    IF form.image # <<>> /\ allowed_file(form.image) THEN ServiceOutcomes ELSE {"ok"}

NextWeb ==
    \E user \in Visitors, logging \in ServiceOutcomes :
        \/ \E form \in Submissions : \E upload \in Uploads(form) :
              add_vehicle(user, form, upload, logging)
        \/ \E id \in Ids, form \in Submissions : \E upload \in Uploads(form) :
              edit_vehicle(user, id, form, upload, logging)
        \/ \E id \in Ids : delete_vehicle(user, id, logging)

SpecWeb == InitWeb /\ [][NextWeb]_vars

\* ---------------------------------------------------------- VehicleManager
\* manager is self._vehicles. What the caller was handed is caller.result;
\* caller.same tells whether a list handed out is the very list object the
\* manager holds, so that a change the caller makes to it shows in both.

\* what a caller may hand to add_vehicle: Vehicle objects, and objects that
\* are no Vehicle
Arguments ==
    {[type |-> "Vehicle", make |-> <<"T", "o", "y", "o", "t", "a">>, model |-> <<"A">>,
      year |-> CurrentYear - 3, price |-> 30000000],
     [type |-> "Vehicle", make |-> K_toyota, model |-> <<"B">>,
      year |-> CurrentYear - 7, price |-> 9999990],
     [type |-> "Vehicle", make |-> K_ford, model |-> <<"C">>,
      year |-> CurrentYear, price |-> 100006],
     [type |-> "dict", make |-> K_ford, model |-> <<"C">>,
      year |-> CurrentYear, price |-> 100006],
     [type |-> "NoneType"]}

\* the indices a caller passes: below, inside and above the collection
Indices == (0 - 2)..(MaxAdded + 1)

\* the bounds a caller passes to the filters, years and prices in mills
YearBounds == {CurrentYear - 7, CurrentYear - 3, CurrentYear}

PriceBounds == {100006, 9999990, 30000000}

\* the call returned value, a value of Python type kind
Handed(kind, value) == [kind |-> kind, value |-> value]

\* the caller's record of the call it made
Called(op, args, value, added, removed) ==
    caller' = [op |-> op, args |-> args, result |-> value, same |-> FALSE,
               added |-> caller.added + added, removed |-> caller.removed + removed]

\* the manager's methods touch the manager only
Managing ==
    /\ Frame
    /\ UNCHANGED <<vehicles, call, result, threads, frames, table, analytics,
                   requests, activity, request>>

\* VehicleManager.add_vehicle
VehicleManager_add_vehicle(vehicle) ==
    /\ Managing
    /\ IF vehicle.type = "Vehicle"
       THEN /\ caller.added < MaxAdded
            /\ manager' = Append(manager, vehicle)
            /\ Called("add_vehicle", <<vehicle>>, Handed("bool", TRUE), 1, 0)
       ELSE /\ UNCHANGED manager
            /\ Called("add_vehicle", <<vehicle>>, Handed("bool", FALSE), 0, 0)

\* list.pop() without the index: the list without its last element
PoppedLast(list, index) == SubSeq(list, 1, Len(list) - 1)

\* list.pop(index) of an index in range: the list without that element
Popped(list, index) ==
    SubSeq(list, 1, index) \o SubSeq(list, index + 2, Len(list))

\* VehicleManager.remove_vehicle; the element at Python index i is manager[i + 1]
VehicleManager_remove_vehicle(index) ==
    /\ Managing
    /\ IF 0 <= index /\ index < Len(manager)
       THEN /\ manager' = Popped(manager, index)
            /\ Called("remove_vehicle", <<index>>,
                      Handed("Vehicle", manager[index + 1]), 0, 1)
       ELSE /\ UNCHANGED manager
            /\ Called("remove_vehicle", <<index>>, Handed("NoneType", <<>>), 0, 0)

\* VehicleManager.get_vehicle
VehicleManager_get_vehicle(index) ==
    /\ Managing
    /\ UNCHANGED manager
    /\ Called("get_vehicle", <<index>>,
              IF 0 <= index /\ index < Len(manager)
              THEN Handed("Vehicle", manager[index + 1])
              ELSE Handed("NoneType", <<>>), 0, 0)

\* return self._vehicles: the list the manager holds
ListItself == TRUE

\* what get_all_vehicles returns is self._vehicles.copy(): another list
CopyIsSame == FALSE

\* VehicleManager.get_all_vehicles
VehicleManager_get_all_vehicles ==
    /\ Managing
    /\ UNCHANGED manager
    /\ caller' = [caller EXCEPT !.op = "get_all_vehicles", !.args = <<>>,
                                !.result = Handed("list", manager),
                                !.same = CopyIsSame]

\* [v for v in self._vehicles if v.make.lower() == make.lower()]
filter_by_make(list, make) ==
    SelectSeq(list, LAMBDA v : Lower(v.make) = Lower(make))

\* [v for v in self._vehicles if min_year <= v.year <= max_year]
filter_by_year_range(list, min_year, max_year) ==
    SelectSeq(list, LAMBDA v : min_year <= v.year /\ v.year <= max_year)

\* [v for v in self._vehicles if min_price <= v.price <= max_price]; the
\* floats compare as their mills do
filter_by_price_range(list, min_price, max_price) ==
    SelectSeq(list, LAMBDA v : min_price <= v.price /\ v.price <= max_price)

\* a call of one of the three filters
VehicleManager_filter ==
    /\ Managing
    /\ UNCHANGED manager
    /\ \/ \E make \in {K_toyota, <<"F", "O", "R", "D">>, K_bmw} :
            Called("filter_by_make", <<make>>,
                   Handed("list", filter_by_make(manager, make)), 0, 0)
       \/ \E min_year \in YearBounds, max_year \in YearBounds :
            Called("filter_by_year_range", <<min_year, max_year>>,
                   Handed("list", filter_by_year_range(manager, min_year, max_year)),
                   0, 0)
       \/ \E min_price \in PriceBounds, max_price \in PriceBounds :
            Called("filter_by_price_range", <<min_price, max_price>>,
                   Handed("list", filter_by_price_range(manager, min_price, max_price)),
                   0, 0)

\* VehicleManager.count
VehicleManager_count ==
    /\ Managing
    /\ UNCHANGED manager
    /\ Called("count", <<>>, Handed("int", Len(manager)), 0, 0)

\* the caller appends to the list it was handed, or pops its first element;
\* the manager's list changes with it when it is the same list
CallerChangesList ==
    /\ Managing
    /\ caller.result.kind = "list"
    /\ caller.op # "changed"
    /\ \E list \in {Append(caller.result.value, v) : v \in {a \in Arguments : a.type = "Vehicle"}}
                    \cup {Tail(caller.result.value) : n \in {1} \cap (1..Len(caller.result.value))} :
         /\ caller' = [caller EXCEPT !.op = "changed", !.result = Handed("list", list)]
         /\ manager' = IF caller.same THEN list ELSE manager

NextManager ==
    \/ \E vehicle \in Arguments : VehicleManager_add_vehicle(vehicle)
    \/ \E index \in Indices :
         \/ VehicleManager_remove_vehicle(index)
         \/ VehicleManager_get_vehicle(index)
    \/ VehicleManager_get_all_vehicles
    \/ VehicleManager_filter
    \/ VehicleManager_count
    \/ CallerChangesList

SpecManager == Init /\ [][NextManager]_vars

\* ------------------------------------------- VehicleAnalytics for any list
\* A caller sets the list of a VehicleAnalytics and asks for its summary.

\* the dicts a caller's list is made of: with every key, without a price,
\* with a price only; prices of whole cents and of a fraction of a cent
AnalysedDicts ==
    {[make |-> <<"T", "o", "y", "o", "t", "a">>, model |-> <<"A">>, year |-> 2020,
      price |-> 20000000],
     [make |-> K_bmw, model |-> <<"B">>, year |-> 2015, price |-> 100006],
     [make |-> <<"B", "M", "W">>, model |-> <<"C">>, year |-> 2020, price |-> 100004],
     [make |-> K_bmw, year |-> CurrentYear + 1],
     [price |-> 7]}

\* the caller's lists, up to MaxVehicles long
AnalysedLists == UNION {[1..n -> AnalysedDicts] : n \in 0..MaxVehicles}

\* the analytics object is used; nothing else is
Analysing ==
    /\ Frame
    /\ UNCHANGED <<vehicles, threads, frames, table, requests, activity, request,
                   manager, caller>>

\* analytics.set_vehicles(list)
CallSetVehicles ==
    /\ call.op # "set_vehicles"
    /\ \E list \in AnalysedLists : analytics' = list
    /\ call' = [op |-> "set_vehicles"]
    /\ result' = Returned(<<>>)
    /\ Analysing

\* analytics.get_summary()
CallGetSummary ==
    /\ call.op # "get_summary"
    /\ call' = [op |-> "get_summary"]
    /\ result' = Returned(get_summary(analytics))
    /\ UNCHANGED analytics
    /\ Analysing

NextAnalytics == CallSetVehicles \/ CallGetSummary

SpecAnalytics == Init /\ [][NextAnalytics]_vars

\* --------------------------------------------------------------- properties

\* the state after a call of op that returned
ReturnedFrom(op) == call.op = op /\ result.kind = "return"

\* the instance a call of a DepreciationModel method was made on
Self == DepreciationModel(call.original_price, call.year)

\* a price in whole cents
WholeCents(price) == price % 10 = 0

\* ---- calculate_current_value within [10% of price, price]

\* C1 as the specification states it: for original_price > 0 and
\* model_year <= current_year, calculate_current_value() is at most
\* original_price and at least original_price * 0.10.
C1_Stated ==
    (ReturnedFrom("calculate_current_value") /\ call.original_price > 0
        /\ call.year <= CurrentYear)
    => /\ result.value <= call.original_price
       /\ 10 * result.value >= call.original_price

\* C1 amended: for original_price > 0 and model_year <= current_year,
\* calculate_current_value() is within half a cent of the interval from
\* 10% of original_price to original_price, because the floored value is
\* rounded to 2 decimals: it is at most original_price + 0.005, at most
\* original_price when the price is in whole cents, and at least
\* original_price * 0.10 - 0.005.
C1_WithinHalfCent ==
    (ReturnedFrom("calculate_current_value") /\ call.original_price > 0
        /\ call.year <= CurrentYear)
    => /\ result.value <= call.original_price + 5
       /\ WholeCents(call.original_price) => result.value <= call.original_price
       /\ 10 * result.value + 50 >= call.original_price

\* a price of 100.04 old enough for the floor of 10.004, returned as 10.0
C1_FloorRoundedDown ==
    /\ ReturnedFrom("calculate_current_value")
    /\ call.original_price = 100040
    /\ call.year <= CurrentYear
    /\ result.value = 10000

\* ---- the schedule is non-increasing and floored

\* C2 as the specification states it: for original_price > 0 the values of
\* get_depreciation_schedule() are non-increasing as the index grows, and
\* none is below 10% of original_price.
C2_Stated ==
    (ReturnedFrom("get_depreciation_schedule") /\ call.original_price > 0)
    => LET schedule == result.value
       IN  /\ \A y \in DOMAIN schedule :
                (y + 1) \in DOMAIN schedule => schedule[y + 1] <= schedule[y]
           /\ \A y \in DOMAIN schedule : 10 * schedule[y] >= call.original_price

\* C2 amended: for original_price > 0 the schedule values from index 1 on
\* are non-increasing; the value at index 1 is at most the value at index 0
\* (the unrounded original_price) plus half a cent, and at most that value
\* when the price is in whole cents; and every value is at least 10% of
\* original_price less half a cent.
C2_UpToRounding ==
    (ReturnedFrom("get_depreciation_schedule") /\ call.original_price > 0)
    => LET schedule == result.value
       IN  /\ \A y \in DOMAIN schedule :
                (y >= 1 /\ (y + 1) \in DOMAIN schedule) => schedule[y + 1] <= schedule[y]
           /\ 1 \in DOMAIN schedule => schedule[1] <= schedule[0] + 5
           /\ (1 \in DOMAIN schedule /\ WholeCents(call.original_price))
                => schedule[1] <= schedule[0]
           /\ \A y \in DOMAIN schedule : 10 * schedule[y] + 50 >= call.original_price

\* the schedule of a price of 0.01, whose fifth year is rounded to 0.0
C2_RoundedBelowFloor ==
    /\ ReturnedFrom("get_depreciation_schedule")
    /\ call.original_price = 10
    /\ 5 \in DOMAIN result.value
    /\ result.value[1] = 10
    /\ result.value[5] = 0

\* ---- the rates of calculate_current_value

\* the rate of elapsed year y as the specification gives it, in percent
StatedRate(y) == IF y <= 5 THEN <<20, 15, 12, 10, 8>>[y] ELSE 8

\* value multiplied by (1 - rate(y)) for y = first .. last, in that order
RECURSIVE StatedProduct(_, _, _)
StatedProduct(value, first, last) ==
    IF first > last \/ IsZero(value) THEN value
    ELSE StatedProduct(FMul(value, FSub(FOfInt(1), FOfDecimal(StatedRate(first), 2))),
                       first + 1, last)

C4_Stated ==
    (ReturnedFrom("calculate_current_value") /\ Self.age <= 0)
    => result.value = call.original_price

\* C4 amended: when age <= 0, calculate_current_value() applies no
\* depreciation step and returns original_price rounded to 2 decimals, which
\* is exactly original_price when the price is in whole cents.
C4_PriceRounded ==
    (ReturnedFrom("calculate_current_value") /\ Self.age <= 0)
    => /\ result.value = Round2(FOfMills(call.original_price))
       /\ WholeCents(call.original_price) => result.value = call.original_price

\* a price of 100.006 in a future model year, returned as 100.01
C4_SubCentPrice ==
    /\ ReturnedFrom("calculate_current_value")
    /\ Self.age < 0
    /\ call.original_price = 100006
    /\ result.value = 100010

\* ---- total depreciation and current value add up

\* C5: get_total_depreciation() + calculate_current_value() is
\* original_price up to the rounding at 2 decimals: within half a cent of
\* it, and equal to it when the price is in whole cents.
C5_AddsUp ==
    ReturnedFrom("get_total_depreciation")
    => LET sum == result.value + calculate_current_value(Self)
       IN  /\ Abs(sum - call.original_price) <= 5
           /\ WholeCents(call.original_price) => sum = call.original_price

\* a price of 30000 at age 3, whose depreciation of 12048 adds up with 17952
C5_Depreciated ==
    /\ ReturnedFrom("get_total_depreciation")
    /\ call.original_price = 30000000
    /\ Self.age = 3
    /\ result.value = 12048000

\* ---- the mileage factor

\* the mileage factor of a call of calculate_market_value
CallMileageFactor == MileageFactor(CurrentYear - call.year, call.mileage)

\* C6: in calculate_market_value the mileage factor is within [0.7, 1.3]
\* for every mileage and year and is the one reported; when age <= 0 it is
\* exactly 1.0, and no division by zero happens for it: the call raises only
\* for a base_price of 0.
C6_MileageClamped ==
    call.op = "calculate_market_value"
    => /\ FLeq(FloatPct[70], CallMileageFactor)
       /\ FLeq(CallMileageFactor, FloatPct[130])
       /\ CurrentYear - call.year <= 0 => CallMileageFactor = FOfInt(1)
       /\ result.kind = "return" <=> call.base_price # 0
       /\ result.kind = "return"
            => result.value.mileage_adjustment = Adjustment(CallMileageFactor)
       /\ (result.kind = "return" /\ CurrentYear - call.year <= 0)
            => result.value.mileage_adjustment = <<"+", "0", ".", "0", "%">>

\* 400000 miles on a one-year-old vehicle: the factor is held at 0.7
C6_ClampedLow ==
    /\ ReturnedFrom("calculate_market_value")
    /\ call.mileage = 400000
    /\ CurrentYear - call.year = 1
    /\ result.value.mileage_adjustment = <<"-", "3", "0", ".", "0", "%">>

\* ---- compare_vehicles sorts, stably

\* the place in the input list of the vehicle a result is about
InputIndex(r) ==
    CHOOSE i \in 1..Len(vehicles) :
        VehicleLabel(vehicles[i].year, vehicles[i].make, vehicles[i].model) = r.vehicle

\* C7: compare_vehicles returns one result per input vehicle, in descending
\* order of value_score, and results of equal value_score in the order of
\* their vehicles in the input list.
C7_SortedStable ==
    ReturnedFrom("compare_vehicles")
    => LET results == result.value
       IN  /\ Len(results) = Len(vehicles)
           /\ \A i \in 1..Len(vehicles) : \E k \in 1..Len(results) :
                results[k].vehicle
                    = VehicleLabel(vehicles[i].year, vehicles[i].make, vehicles[i].model)
           /\ \A k \in 1..(Len(results) - 1) :
                results[k].value_score >= results[k + 1].value_score
           /\ \A k, l \in 1..Len(results) :
                (k < l /\ results[k].value_score = results[l].value_score)
                    => InputIndex(results[k]) < InputIndex(results[l])

\* two vehicles of equal score, the one of the greater price given second
\* and returned second, after a vehicle of greater score that was given last
C7_TieKeepsOrder ==
    /\ ReturnedFrom("compare_vehicles")
    /\ Len(vehicles) = 3
    /\ vehicles[1].price = 20000000
    /\ vehicles[2].price = 30000000
    /\ result.value[2].value_score = result.value[3].value_score
    /\ result.value[2].base_price = 20000000
    /\ result.value[3].base_price = 30000000
    /\ result.value[1].value_score > result.value[2].value_score

\* ---- the price suggestion

\* baseline MSRP times condition multiplier, for a call of get_price_suggestion
CallAdjustedValue ==
    FMul(FOfMills(calculate_current_value(DepreciationModel(Mills(Msrp(call.make)),
                                                            call.year))),
         FloatPct[ConditionOf(call.condition)])

KnownMakes ==
    {K_toyota, K_honda, K_ford, K_chevrolet, K_bmw, K_mercedes, K_audi, K_tesla, K_default}

\* the suggested price of a make of the given baseline MSRP, for a call of
\* get_price_suggestion
SuggestedPriceOf(msrp) ==
    Round2(FMul(FOfMills(calculate_current_value(DepreciationModel(Mills(msrp),
                                                                   call.year))),
                FloatPct[ConditionOf(call.condition)]))

\* C9: a make that, lower-cased, is not in the factor table has make factor
\* 1.00 in calculate_market_value and baseline MSRP 35000 in
\* get_price_suggestion, for any year and without an error (other than that
\* of a base_price of 0); a known make in any letter case has its table
\* entry, 'TESLA' the factor 1.25 and the MSRP 50000.
C9_MakeDefaults ==
    /\ call.op = "calculate_market_value"
        => /\ result.kind = "return" <=> call.base_price # 0
           /\ result.kind = "return"
                => LET r == result.value
                       factor == IF Lower(call.make) \in KnownMakes
                                 THEN InitialMakeFactors[Lower(call.make)] ELSE 100
                   IN  /\ r.make_adjustment = Adjustment(FOfDecimal(factor, 2))
                       /\ r.estimated_value
                            = EstimatedValue(r.depreciated_value, factor, call.condition,
                                             CallMileageFactor)
                       /\ Lower(call.make) \notin KnownMakes
                            => r.make_adjustment = <<"+", "0", ".", "0", "%">>
                       /\ Lower(call.make) = K_tesla
                            => r.make_adjustment = <<"+", "2", "5", ".", "0", "%">>
    /\ call.op = "get_price_suggestion"
        => /\ result.kind = "return"
           /\ Lower(call.make) \notin KnownMakes
                => result.value.suggested_price = SuggestedPriceOf(35000)
           /\ Lower(call.make) \in KnownMakes
                => result.value.suggested_price = SuggestedPriceOf(base_msrp[Lower(call.make)])
           /\ Lower(call.make) = K_tesla
                => result.value.suggested_price = SuggestedPriceOf(50000)

\* the unknown make 'zz' valued with no make adjustment
C9_UnknownMake ==
    /\ ReturnedFrom("calculate_market_value")
    /\ call.make = <<"z", "z">>
    /\ CurrentYear - call.year = 3
    /\ result.value.make_adjustment = <<"+", "0", ".", "0", "%">>

\* ---- condition strings

\* the multipliers of the four grades as the specification gives them, in
\* percent
StatedGrades == (K_excellent :> 100) @@ (K_good :> 85) @@ (K_fair :> 70) @@ (K_poor :> 50)

\* the three prices of a suggestion
PricesOf(r) == <<r.suggested_min, r.suggested_price, r.suggested_max>>

\* the three prices around the depreciated baseline MSRP times a multiplier
\* in percent, for a call of get_price_suggestion
PricesAt(multiplier) ==
    LET base_value ==
            calculate_current_value(DepreciationModel(Mills(Msrp(call.make)), call.year))
        adjusted_value == FMul(FOfMills(base_value), FOfDecimal(multiplier, 2))
    IN  <<Round2(FMul(adjusted_value, FOfDecimal(95, 2))),
          Round2(adjusted_value),
          Round2(FMul(adjusted_value, FOfDecimal(105, 2)))>>

\* C10: get_price_suggestion maps the condition string, whatever its letter
\* case, to its grade (excellent 1.00, good 0.85, fair 0.70, poor 0.50), and
\* returns for any other string exactly the prices it returns for 'good',
\* without an error.
C10_ConditionMapped ==
    call.op = "get_price_suggestion"
    => /\ result.kind = "return"
       /\ result.value.condition = call.condition
       /\ Lower(call.condition) \in DOMAIN StatedGrades
            => PricesOf(result.value) = PricesAt(StatedGrades[Lower(call.condition)])
       /\ Lower(call.condition) \notin DOMAIN StatedGrades
            => /\ PricesOf(result.value) = PricesAt(StatedGrades[K_good])
               /\ PricesOf(result.value)
                    = PricesOf(get_price_suggestion(call.make, call.year, K_good))

\* the unrecognized condition 'mint' priced as 'good'
C10_Unrecognized ==
    /\ ReturnedFrom("get_price_suggestion")
    /\ call.condition = <<"m", "i", "n", "t">>
    /\ call.make = K_toyota
    /\ call.year = CurrentYear - 1
    /\ result.value.suggested_price = 23800000

\* ---- what raises

\* a call divides by an original_price of zero in get_depreciation_percentage:
\* directly, through calculate_market_value, or through compare_vehicles for
\* one of its vehicles
DividesByZeroPrice ==
    \/ call.op = "get_depreciation_percentage" /\ call.original_price = 0
    \/ call.op = "calculate_market_value" /\ call.base_price = 0
    \/ call.op = "compare_vehicles" /\ \E i \in 1..Len(call.vehicles) : call.vehicles[i].price = 0

\* C11: an operation of DepreciationModel or PriceCalculator raises only the
\* division-by-zero fault of get_depreciation_percentage for an
\* original_price of zero, which calculate_market_value and compare_vehicles
\* propagate unchanged; with every price positive no operation raises,
\* whatever the model year, make, condition string or mileage.
C11_OnlyZeroPriceRaises ==
    call.op # "none"
    => /\ result.kind \in {"return", "raise"}
       /\ result.kind = "raise" <=> DividesByZeroPrice
       /\ result.kind = "raise" => result.value = "ZeroDivisionError"

\* a list whose last vehicle has a price of zero: compare_vehicles raises
\* what calculate_market_value raised for it
C11_ZeroPricePropagates ==
    /\ call.op = "compare_vehicles"
    /\ Len(call.vehicles) = 2
    /\ call.vehicles[1].price > 0
    /\ call.vehicles[2].price = 0
    /\ result = Raised("ZeroDivisionError")

\* ---- the indices of the schedule

\* C12 as stated: get_depreciation_schedule() has an entry for exactly the
\* indices 0, 1, ..., min(age + 5, 15), for every model year, future ones
\* included, and the entry at index 0 is original_price.
C12_Stated ==
    ReturnedFrom("get_depreciation_schedule")
    => /\ DOMAIN result.value = 0..Min(Self.age + 5, 15)
       /\ 0 \in DOMAIN result.value => result.value[0] = call.original_price

\* C12 amended: get_depreciation_schedule() has an entry for exactly the
\* indices 0, 1, ..., max(0, min(age + 5, 15)): index 0 is always there,
\* also for a model year more than 5 years ahead, where it is the only one;
\* and the entry at index 0 is original_price.
C12_IndexZeroAlways ==
    ReturnedFrom("get_depreciation_schedule")
    => /\ DOMAIN result.value = 0..Max(0, Min(Self.age + 5, 15))
       /\ result.value[0] = call.original_price

\* a model year 6 years ahead: the schedule is the entry at index 0 alone
C12_FarFuture ==
    /\ ReturnedFrom("get_depreciation_schedule")
    /\ Self.age = -6
    /\ call.original_price = 30000000
    /\ result.value = (0 :> 30000000)

\* ---- no side effects

\* C13: the operations are side-effect-free.  After any sequence of calls
\* the calculator's adjustments list is as constructed (empty) and the two
\* lookup tables are as first assigned, and after compare_vehicles the
\* caller's list and its dictionaries are what was passed in; so every call
\* starts from the state the first call started from, and what it returns
\* is decided by its arguments and the current year, not by earlier calls.
C13_SideEffectFree ==
    /\ adjustments = <<>>
    /\ DEPRECIATION_RATES = InitialDepreciationRates
    /\ MAKE_FACTORS = InitialMakeFactors
    /\ call.op = "compare_vehicles" => vehicles = call.vehicles

\* compare_vehicles has returned the results of three vehicles, whose
\* dictionaries have no value_score
C13_ListAsPassed ==
    /\ ReturnedFrom("compare_vehicles")
    /\ Len(call.vehicles) = 3
    /\ vehicles = call.vehicles
    /\ \A i \in 1..3 : DOMAIN vehicles[i] = {"make", "model", "year", "price"}
    /\ \A i \in 1..3 : "value_score" \in DOMAIN result.value[i]

\* ---- concurrent callers of the shared instance

\* what a call returns or raises when it runs alone
Alone(op, a) ==
    IF op = "get_price_suggestion"
    THEN Returned(get_price_suggestion(a.make, a.year, a.condition))
    ELSE IF MarketValueRaises(a.base_price, a.year) THEN Raised("ZeroDivisionError")
         ELSE Returned(calculate_market_value(a.make, a.model, a.year, a.base_price,
                                              a.condition, a.mileage))

\* C14: when several threads call calculate_market_value and
\* get_price_suggestion of the one shared PriceCalculator at the same time,
\* interleaved statement by statement in any order, every call ends with
\* the result it has when it runs alone, and the instance and the tables
\* are as constructed.
C14_AsIfAlone ==
    /\ \A t \in Threads :
            threads[t].pc = "done" => threads[t].result = Alone(threads[t].op, threads[t].args)
    /\ adjustments = <<>>
    /\ DEPRECIATION_RATES = InitialDepreciationRates
    /\ MAKE_FACTORS = InitialMakeFactors

\* a thread has returned from calculate_market_value for the 3-year-old
\* vehicle while another is inside the same method, past its make factor,
\* for a vehicle of another make
C14_Interleaved ==
    \E t, u \in Threads :
        /\ threads[t].pc = "done"
        /\ threads[t].op = "calculate_market_value"
        /\ threads[t].args.base_price = 30000000
        /\ threads[t].result.kind = "return"
        /\ threads[t].result.value.estimated_value = 16785120
        /\ threads[u].pc = "L103"
        /\ threads[u].args.base_price = 100040

\* ---- the dictionary calculate_market_value produces

\* the keys of the dictionary calculate_market_value returns
ValuationKeys ==
    {"vehicle", "base_price", "depreciated_value", "make_adjustment",
     "condition_adjustment", "mileage_adjustment", "estimated_value",
     "depreciation_total", "depreciation_percent"}

\* what calculate_market_value produces for a vehicle of compare_vehicles
ProducedFor(v) == calculate_market_value(v.make, v.model, v.year, v.price, GOOD, DefaultMileage)

\* C15 as stated: the dictionary calculate_market_value produces is never
\* changed after it has been produced, also not by compare_vehicles: what
\* compare_vehicles returns for a vehicle is the dictionary as
\* calculate_market_value produced it.
C15_Stated ==
    ReturnedFrom("compare_vehicles")
    => \A k \in 1..Len(result.value) :
            result.value[k] = ProducedFor(vehicles[InputIndex(result.value[k])])

\* C15 amended: calculate_market_value produces for each call a dictionary
\* of its own with exactly the nine keys of a valuation; compare_vehicles
\* changes each dictionary it obtained in one way only, by adding the key
\* value_score to it: the values of the nine keys stay as produced.
C15_OnlyScoreAdded ==
    /\ ReturnedFrom("calculate_market_value") => DOMAIN result.value = ValuationKeys
    /\ ReturnedFrom("compare_vehicles")
        => \A k \in 1..Len(result.value) :
            /\ DOMAIN result.value[k] = ValuationKeys \cup {"value_score"}
            /\ \A key \in ValuationKeys :
                    result.value[k][key]
                        = ProducedFor(vehicles[InputIndex(result.value[k])])[key]

\* the result of compare_vehicles for the 3-year-old 30000 vehicle: the
\* valuation with its depreciation of 40.2 percent, and a score of 53.8
C15_ScoreAdded ==
    /\ ReturnedFrom("compare_vehicles")
    /\ Len(result.value) = 1
    /\ result.value[1].base_price = 30000000
    /\ result.value[1].estimated_value = 16132370
    /\ result.value[1].depreciation_percent = 402
    /\ result.value[1].value_score = 538

\* ---- what calculate_market_value returns

\* the DepreciationModel(base_price, year) of a call of calculate_market_value
CallModel == DepreciationModel(call.base_price, call.year)

\* depreciation_total / base_price * 100 of a returned valuation, as a float
TotalOverPrice ==
    FMul(FDiv(FOfMills(result.value.depreciation_total), FOfMills(call.base_price)),
         FOfInt(100))

\* depreciated_value * make_factor * condition_factor * mileage_factor of a
\* returned valuation, multiplied in this order
StatedProductOfFactors ==
    FMul(FMul(FMul(FOfMills(result.value.depreciated_value),
                   FOfDecimal(MakeFactor(call.make), 2)),
              FOfDecimal(call.condition, 2)),
         CallMileageFactor)

\* the three values of a returned valuation that come from the model
FromTheModel ==
    /\ result.value.depreciated_value = calculate_current_value(CallModel)
    /\ result.value.depreciation_total = get_total_depreciation(CallModel)
    /\ result.value.depreciation_percent = get_depreciation_percentage(CallModel)

\* C16 as stated: calculate_market_value returns estimated_value =
\* depreciated_value x make_factor x condition_factor x mileage_factor
\* rounded to 2 decimals; depreciated_value, depreciation_total and
\* depreciation_percent are what calculate_current_value(),
\* get_total_depreciation() and get_depreciation_percentage() of a
\* DepreciationModel(base_price, year) return; and depreciation_percent is
\* depreciation_total / base_price * 100.
C16_Stated ==
    ReturnedFrom("calculate_market_value")
    => /\ result.value.estimated_value = Round2(StatedProductOfFactors)
       /\ FromTheModel
       /\ FOfDecimal(result.value.depreciation_percent, 1) = TotalOverPrice

\* C16 amended: the same, with depreciation_percent being
\* depreciation_total / base_price * 100 rounded to 1 decimal.
C16_PercentRounded ==
    ReturnedFrom("calculate_market_value")
    => /\ result.value.estimated_value = Round2(StatedProductOfFactors)
       /\ FromTheModel
       /\ result.value.depreciation_percent = PyRound(TotalOverPrice, 1)

\* a 30000 toyota of 3 years in good condition with 36000 miles: 17952.0
\* x 1.10 x 0.85 x 1.0, and a depreciation of 12048.0, 40.16 percent of the
\* price, returned as 40.2
C16_ToyotaValued ==
    /\ ReturnedFrom("calculate_market_value")
    /\ call.base_price = 30000000
    /\ call.make = K_toyota
    /\ call.condition = GOOD
    /\ call.mileage = 36000
    /\ result.value.depreciated_value = 17952000
    /\ result.value.estimated_value = 16785120
    /\ result.value.depreciation_total = 12048000
    /\ result.value.depreciation_percent = 402

\* ---- what compare_vehicles returns

\* a valuation extended with value_score = estimated_value / price * 100
\* rounded to 1 decimal
WithStatedScore(valuation, price) ==
    ("value_score" :>
        PyRound(FMul(FDiv(FOfMills(valuation.estimated_value), FOfMills(price)),
                     FOfInt(100)), 1))
    @@ valuation

\* the result the claim gives for a vehicle: calculate_market_value with
\* condition GOOD and a mileage of 50000, with its score
StatedResult(v) ==
    WithStatedScore(calculate_market_value(v.make, v.model, v.year, v.price, GOOD, 50000),
                    v.price)

\* C17: compare_vehicles returns exactly one result per input vehicle, the
\* results being a permutation of the per-vehicle results, and the result of
\* a vehicle is calculate_market_value(make, model, year, price) with
\* condition GOOD and the default mileage of 50000, extended with
\* value_score = estimated_value / price * 100 rounded to 1 decimal.
C17_OnePerVehicle ==
    ReturnedFrom("compare_vehicles")
    => /\ Len(result.value) = Len(call.vehicles)
       /\ \E place \in [1..Len(call.vehicles) -> 1..Len(call.vehicles)] :
            /\ \A i, j \in 1..Len(call.vehicles) : place[i] = place[j] => i = j
            /\ \A i \in 1..Len(call.vehicles) :
                    result.value[place[i]] = StatedResult(call.vehicles[i])

\* three vehicles returned in another order than given: the last one first
C17_Reordered ==
    /\ ReturnedFrom("compare_vehicles")
    /\ Len(call.vehicles) = 3
    /\ result.value[1] = StatedResult(call.vehicles[3])
    /\ result.value[2] = StatedResult(call.vehicles[1])
    /\ result.value[3] = StatedResult(call.vehicles[2])
    /\ result.value[1].value_score > result.value[2].value_score

\* ---- the schedule at the vehicle's age

\* C18 as stated: for every model with 0 <= age <= 15 the schedule entry at
\* index age equals calculate_current_value().
C18_Stated ==
    (ReturnedFrom("get_depreciation_schedule") /\ 0 <= Self.age /\ Self.age <= 15)
    => result.value[Self.age] = calculate_current_value(Self)

\* C18 amended: for every model with 1 <= age <= 15 the schedule entry at
\* index age equals calculate_current_value(): both apply the same rates
\* and the same floor and round to 2 decimals.  At age 0 the entry is
\* original_price as given and calculate_current_value() is original_price
\* rounded to 2 decimals: they are equal when the price is in whole cents.
C18_AgreeAtAge ==
    (ReturnedFrom("get_depreciation_schedule") /\ 0 <= Self.age /\ Self.age <= 15)
    => /\ Self.age >= 1 => result.value[Self.age] = calculate_current_value(Self)
       /\ Self.age = 0 => /\ result.value[0] = call.original_price
                           /\ calculate_current_value(Self)
                                = Round2(FOfMills(call.original_price))
       /\ WholeCents(call.original_price)
            => result.value[Self.age] = calculate_current_value(Self)

\* the schedule of a 30000 vehicle of 15 years: 6456.86 at index 15
C18_FifteenYears ==
    /\ ReturnedFrom("get_depreciation_schedule")
    /\ call.original_price = 30000000
    /\ Self.age = 15
    /\ result.value[15] = 6456860
    /\ calculate_current_value(Self) = 6456860

\* C19: a dashboard request's summary is the summary of the requesting user's
\* own vehicles, whatever the other requests served at the same time do
C19_OwnSummary ==
    \A r \in Requests :
        requests[r].pc = "done" /\ requests[r].route = "dashboard"
            => requests[r].summary
                   = get_summary(VehicleData(FilterByUser(table, requests[r].user)))

\* the rows of the table
Records(rows) == {rows[i] : i \in 1..Len(rows)}

\* the step is a request to edit or delete a vehicle that another user owns
ByAnotherUser ==
    /\ request'.op \in {"edit", "delete"}
    /\ \E v \in Records(table) : v.id = request'.id /\ v.user_id # request'.user

\* C20: a request changes or deletes a vehicle only when its logged-in user
\* owns the vehicle; a request to edit or delete another user's vehicle
\* leaves the table and the activity log as they were; and a vehicle keeps
\* the owner it was created with
C20_OwnerOnly ==
    [][ /\ \A v \in Records(table) \ Records(table') :
              /\ request'.op \in {"edit", "delete"}
              /\ request'.id = v.id
              /\ request'.user = v.user_id
        /\ ByAnotherUser => table' = table /\ activity' = activity
        /\ \A v \in Records(table), w \in Records(table') :
              v.id = w.id => v.user_id = w.user_id ]_vars

\* another user's request to delete a vehicle has been turned away, and the
\* vehicle is still there
C20_TurnedAway ==
    /\ request.op = "delete"
    /\ request.outcome = "unauthorized"
    /\ \E v \in Records(table) : v.id = request.id /\ v.user_id # request.user

\* the step is a call of op: every step of the manager's caller records its
\* operation
Calls(op) == caller'.op = op

\* the index of the call is one of 0..count()-1
InRange == 0 <= caller'.args[1] /\ caller'.args[1] < Len(manager)

\* C21: count() is the number of add_vehicle calls that returned True less
\* the number of remove_vehicle calls that returned a vehicle; add_vehicle of
\* a non-Vehicle returns False, and remove_vehicle and get_vehicle of an
\* index outside 0..count()-1 return None, the collection unchanged; a
\* remove_vehicle(i) that succeeds takes out the element at i and keeps the
\* others in their order
C21_Counted ==
    /\ [](/\ Len(manager) = caller.added - caller.removed
          /\ caller.op = "count" => caller.result.value = caller.added - caller.removed)
    /\ [][ /\ Calls("add_vehicle") /\ caller'.args[1].type # "Vehicle"
              => caller'.result = Handed("bool", FALSE) /\ manager' = manager
           /\ (Calls("remove_vehicle") \/ Calls("get_vehicle")) /\ ~InRange
              => caller'.result.kind = "NoneType" /\ manager' = manager
           /\ Calls("remove_vehicle") /\ InRange
              => LET i == caller'.args[1] + 1
                 IN  /\ caller'.result = Handed("Vehicle", manager[i])
                     /\ Len(manager') = Len(manager) - 1
                     /\ \A j \in 1..Len(manager') :
                          manager'[j] = IF j < i THEN manager[j] ELSE manager[j + 1]
         ]_vars

\* the second of three vehicles has been removed
C21_MiddleRemoved ==
    /\ caller.op = "remove_vehicle"
    /\ caller.args = <<1>>
    /\ caller.result.kind = "Vehicle"
    /\ caller.added = 3
    /\ Len(manager) = 2
    /\ manager[1] # manager[2]

\* the vehicle satisfies the predicate of the filter called in this step:
\* the make whatever its letter case, the year or the price within the bounds,
\* the bounds included
Satisfies(v) ==
    CASE caller'.op = "filter_by_make" -> Lower(v.make) = Lower(caller'.args[1])
      [] caller'.op = "filter_by_year_range" ->
            caller'.args[1] <= v.year /\ v.year <= caller'.args[2]
      [] caller'.op = "filter_by_price_range" ->
            caller'.args[1] <= v.price /\ v.price <= caller'.args[2]

\* list holds the elements of the collection at the positions hits, in the
\* order of the collection
PickedInOrder(list, hits) ==
    /\ Len(list) = Cardinality(hits)
    /\ \A k \in 1..Len(list) :
         list[k] = manager[CHOOSE i \in hits : Cardinality({j \in hits : j < i}) = k - 1]

\* C22: get_vehicle, get_all_vehicles, the three filters and count leave the
\* collection as it is; get_all_vehicles hands out a copy, so the collection
\* and count() stay when the caller adds to or removes from that list; a
\* filter returns, in collection order, exactly the vehicles that satisfy its
\* predicate
C22_ReadOnly ==
    [][ /\ caller'.op \in {"get_vehicle", "get_all_vehicles", "filter_by_make",
                            "filter_by_year_range", "filter_by_price_range",
                            "count", "changed"}
           => manager' = manager
        /\ Calls("get_all_vehicles")
           => caller'.result = Handed("list", manager) /\ ~caller'.same
        /\ caller'.op \in {"filter_by_make", "filter_by_year_range",
                            "filter_by_price_range"}
           => PickedInOrder(caller'.result.value,
                            {i \in 1..Len(manager) : Satisfies(manager[i])})
      ]_vars

\* the caller has appended to the list get_all_vehicles returned for a
\* collection of two
C22_CopyChanged ==
    /\ caller.op = "changed"
    /\ caller.args = <<>>
    /\ Len(manager) = 2
    /\ Len(caller.result.value) = 3
    /\ SubSeq(caller.result.value, 1, 2) = manager

\* the sum of the counts of a grouping
RECURSIVE SumOfCounts(_)
SumOfCounts(items) ==
    IF items = <<>> THEN 0 ELSE Head(items)[2] + SumOfCounts(Tail(items))

\* the counts of get_summary add up, and the summary of the empty list is
\* all zeros and empty groupings
CountsAddUp(summary) ==
    /\ summary.total_vehicles = Len(analytics)
    /\ summary.total_vehicles = SumOfCounts(summary.by_make)
    /\ summary.total_vehicles = SumOfCounts(summary.by_year)
    /\ analytics = <<>>
       => /\ summary.total_vehicles = 0
          /\ summary.average_price = 0
          /\ summary.price_range = [min |-> 0, max |-> 0]
          /\ summary.average_age = 0
          /\ summary.by_make = <<>>
          /\ summary.by_year = <<>>

\* C23 as stated: the counts add up, and the average price lies between the
\* least and the greatest price
C23_Stated ==
    call.op = "get_summary"
        => /\ CountsAddUp(result.value)
           /\ result.value.price_range.min <= result.value.average_price
           /\ result.value.average_price <= result.value.price_range.max

\* C23: the counts add up, and the average price, which is rounded to two
\* decimals, lies between the least and the greatest price rounded to two
\* decimals
C23_ConsistentToTheCent ==
    call.op = "get_summary"
        => /\ CountsAddUp(result.value)
           /\ Round2(FOfMills(result.value.price_range.min))
                  <= result.value.average_price
           /\ result.value.average_price
                  <= Round2(FOfMills(result.value.price_range.max))

\* the summary of three vehicles of two makes, one of which has a price of a
\* fraction of a cent
C23_ThreeSummarised ==
    /\ call.op = "get_summary"
    /\ result.value.total_vehicles = 3
    /\ Len(result.value.by_make) = 2
    /\ result.value.price_range.min = 7

\* ---- the current value against the age

\* the value of the loop of calculate_current_value before the floor, and the
\* floor: 10% of the price
Unfloored == Depreciate(FOfMills(call.original_price), 1, Self.age)

TenPercent == FMul(FOfMills(call.original_price), FloatPct[10])

\* the current value is at most that of a model one year newer, and within
\* the ages 0..15 the value of the loop is above the floor
OlderIsNoDearer ==
    /\ calculate_current_value(DepreciationModel(call.original_price, call.year - 1))
           <= result.value
    /\ (0 <= Self.age /\ Self.age <= 15)
           => FLess(TenPercent, Unfloored) /\ result.value = Round2(Unfloored)

\* C24 as stated: for original_price > 0 the current value does not grow with
\* the age, it is exactly 10% of original_price from the age of 25 on, and
\* the floor does not bind within the ages 0..15
C24_Stated ==
    (ReturnedFrom("calculate_current_value") /\ call.original_price > 0)
    => /\ OlderIsNoDearer
       /\ Self.age >= 25 => 10 * result.value = call.original_price

\* C24 amended: for original_price > 0 the current value does not grow with
\* the age, it is 10% of original_price rounded to 2 decimals from the age of
\* 25 on (exactly 10% when the price has at most one decimal), where the
\* floor binds, and the floor does not bind within the ages 0..15
C24_FlooredFromTwentyFive ==
    (ReturnedFrom("calculate_current_value") /\ call.original_price > 0)
    => /\ OlderIsNoDearer
       /\ Self.age >= 25
            => /\ result.value = Round2(TenPercent)
               /\ FLess(Unfloored, TenPercent)
               /\ call.original_price % 100 = 0
                    => 10 * result.value = call.original_price

\* a 30000 vehicle of 25 years is worth 3000
C24_TwentyFiveYears ==
    /\ ReturnedFrom("calculate_current_value")
    /\ call.original_price = 30000000
    /\ Self.age = 25
    /\ result.value = 3000000

\* ---- adding a vehicle with or without an image

\* the file name ends with a dot and png, jpg, jpeg or gif, in any letter case
HasAllowedExtension(filename) ==
    \E extension \in {<<"p", "n", "g">>, <<"j", "p", "g">>, <<"j", "p", "e", "g">>,
                       <<"g", "i", "f">>} :
        /\ Len(filename) > Len(extension)
        /\ filename[Len(filename) - Len(extension)] = "."
        /\ Lower(SubSeq(filename, Len(filename) - Len(extension) + 1, Len(filename)))
               = extension

\* the table has one row more, which is the form's vehicle owned by the
\* user, its image the uploaded file's when the name has an allowed
\* extension and the upload succeeded and None otherwise; the other rows stay
OneVehicleCreated ==
    /\ Len(table') = Len(table) + 1
    /\ SubSeq(table', 1, Len(table)) = table
    /\ LET form == request'.form
           vehicle == table'[Len(table')]
       IN  /\ vehicle.user_id = request'.user
           /\ vehicle.id \notin {v.id : v \in Records(table)}
           /\ <<vehicle.make, vehicle.model, vehicle.year, vehicle.price>>
                  = <<form.make, form.model, form.year, form.price>>
           /\ vehicle.image_url
                  = IF HasAllowedExtension(form.image) /\ request'.upload = "ok"
                    THEN form.image
                    ELSE <<>>

\* C25: a valid form submitted to add_vehicle by a logged-in user creates
\* exactly one vehicle of that user, whatever the image and whatever became
\* of its upload
C25_AlwaysCreated ==
    [][ ( /\ request'.op = "add"
          /\ request'.user # 0
          /\ request'.form.method = "POST"
          /\ request'.form.year <= 2030 )
        => OneVehicleCreated ]_vars

====
